---- MODULE Spec2Model ----
(***************************************************************************)
(* Verification model of the CAM strategy pipeline: the strategy labeller  *)
(* and raster-angle estimator of new_generate_synthetic.py, and the        *)
(* geometric feature extraction of new_generate_synthetic.py and           *)
(* tools/eval/run_eval.py.                                                 *)
(*                                                                         *)
(* Floating-point quantities are fixed-point integers:                     *)
(*   ratios (steep, flat)        1e-4           (0.35  -> 3500)            *)
(*   lengths fed to the labeller 1e-4 mm        (1e-3  -> 10)              *)
(*   angles                      1e-4 degree    (180   -> 1800000)         *)
(*   step-over before rounding   1e-7 mm        (6.0   -> 60000000)        *)
(*   uniform draws               k / RngDen, k in 0..RngDen-1              *)
(* round(x, n) is round-half-to-even on the fixed-point value.             *)
(***************************************************************************)
EXTENDS Integers, Sequences, FiniteSets, TLC

VARIABLES
    lblFeatures,   \* features argument of choose_label (index 0..14)
    lblExtras,     \* extras argument of choose_label
    lblOut,        \* outcome of the latest choose_label call
    lblPrev,       \* decision of the call before it (same inputs, other rng)
    lblRng,        \* draws the latest call was given
    lblCand,       \* what compute_raster_angle gave inside the latest call
    binSlope,      \* slope handed to the two binning routines (1e-1 degree)
    binOut,        \* bins the generator and the evaluator computed for it
    mesh,          \* mesh under feature extraction: vertices and faces
    genOut,        \* result of compute_feature_vector (generator)
    evalOut,       \* result of compute_global_features (evaluator)
    meshOps,       \* 1 while the winding of the mesh is the reversed one
    depCfg,        \* dependency check: configuration and what the services answer
    depRun,        \* dependency check: position and findings of main
    inferIn,       \* evaluator: the model under evaluation and a feature vector
    inferOut,      \* evaluator: outcome of infer_onnx / infer_torch
    evalRow,       \* evaluator: the row main builds from the prediction
    fitRun,        \* train_model: the state of its training loop
    vecIn,         \* evaluator: arguments of build_feature_vector
    vecOut,        \* evaluator: what build_feature_vector returned
    cardIn,        \* evaluator: the sidecar files next to the model file
    cardOut,       \* evaluator: what load_model_card returned
    simOut,        \* what the latest generate_sample call returned
    trainRun,      \* the training script's main: position and files written
    genRun,        \* the dataset generator's main loop over the samples
    dataset        \* the dataset generator's directories and manifests

lblVars == <<lblFeatures, lblExtras, lblOut, lblPrev, lblRng, lblCand>>
binVars == <<binSlope, binOut>>
meshVars == <<mesh, genOut, evalOut, meshOps>>
trainVars == <<simOut, trainRun>>
runVars == <<genRun>>
datasetVars == <<dataset>>
depVars == <<depCfg, depRun>>
coreVars == <<lblVars, binVars, meshVars, trainVars, runVars>>
inferVars == <<inferIn, inferOut, evalRow>>
fitVars == <<fitRun>>
vecVars == <<vecIn, vecOut>>
cardVars == <<cardIn, cardOut>>
toolVars == <<depVars, inferVars, fitVars, vecVars, cardVars>>
allToolVars == <<toolVars, datasetVars>>
vars == <<lblFeatures, lblExtras, lblOut, lblPrev, lblRng, lblCand,
          binSlope, binOut, mesh, genOut, evalOut, meshOps,
          simOut, trainRun, genRun, depCfg, depRun,
          inferIn, inferOut, evalRow, fitRun, vecIn, vecOut,
          cardIn, cardOut, dataset>>

(***************************************************************************)
(* Arithmetic helpers                                                      *)
(***************************************************************************)
Abs(x) == IF x < 0 THEN 0 - x ELSE x

Max(x, y) == IF x >= y THEN x ELSE y

Min(x, y) == IF x <= y THEN x ELSE y

RECURSIVE SeqSum(_)
SeqSum(s) == IF s = <<>> THEN 0 ELSE Head(s) + SeqSum(Tail(s))

\* Python round(): round half to even, n >= 0 in units of 1/d.
RoundHalfEven(n, d) ==
    LET q == n \div d
        r == n % d
    IN  IF 2 * r < d THEN q
        ELSE IF 2 * r > d THEN q + 1
        ELSE IF q % 2 = 0 THEN q ELSE q + 1

RECURSIVE ISqrtAux(_, _, _)
ISqrtAux(n, lo, hi) ==
    IF lo >= hi THEN lo
    ELSE LET mid == (lo + hi + 1) \div 2
         IN  IF mid * mid <= n THEN ISqrtAux(n, mid, hi)
             ELSE ISqrtAux(n, lo, mid - 1)

\* floor(sqrt(n)) for 0 <= n < 2^30
ISqrt(n) == ISqrtAux(n, 0, 32767)

\* A float that may be NaN.
Fin(v) == [nan |-> FALSE, v |-> v]

NaN == [nan |-> TRUE, v |-> 0]

(***************************************************************************)
(* Fixed-point scales (not program constants)                              *)
(***************************************************************************)
RngDen == 10 ^ 5          \* a draw k stands for the uniform value k / RngDen

DegUnit == 10 ^ 4         \* angle units per degree

(***************************************************************************)
(* Program constants                                                       *)
(***************************************************************************)
TOOL_DIAMETER_MM == 6 * (10 ^ 7)

OCL_AVAILABLE == FALSE

SteepWaterline == 3500

SteepWithDepth == 2200

DepthWaterline == 4500

DepthFine == 6000

SteepFine == 1800

ZExtentFloor == 10

PlanarMin == 1

(***************************************************************************)
(* sample_uniform: rng.uniform(low, high) = low + (high - low) * u with    *)
(* u = k / RngDen.  Every (high - low) used is a multiple of RngDen.       *)
(***************************************************************************)
sample_uniform(k, low, high) == low + ((high - low) \div RngDen) * k

(***************************************************************************)
(* atan2 in degrees.  TanE4[d + 1] = tan(d degrees) * 10^4, d = 0..45;     *)
(* between two entries the angle is interpolated linearly.                 *)
(***************************************************************************)
TanE4 ==
    << 0, 175, 349, 524, 699, 875, 1051, 1228, 1405, 1584, 1763, 1944,
       2126, 2309, 2493, 2679, 2867, 3057, 3249, 3443, 3640, 3839, 4040,
       4245, 4452, 4663, 4877, 5095, 5317, 5543, 5774, 6009, 6249, 6494,
       6745, 7002, 7265, 7536, 7813, 8098, 8391, 8693, 9004, 9325, 9657,
       10000 >>

\* atan(y / x) for 0 <= y <= x, 0 < x, in angle units; nonzero for y > 0
AtanOctant(y, x) ==
    LET t == (y * 10000) \div x
        d == CHOOSE e \in 0..45 :
                 /\ TanE4[e + 1] <= t
                 /\ (e = 45 \/ t < TanE4[e + 2])
        a == IF d = 45 THEN 45 * DegUnit
             ELSE d * DegUnit
                  + ((t - TanE4[d + 1]) * DegUnit) \div (TanE4[d + 2] - TanE4[d + 1])
    IN  IF y > 0 THEN Max(a, 1) ELSE 0

\* atan(y / x) for x, y >= 0, not both 0
AtanQuadrant(y, x) ==
    IF y <= x THEN AtanOctant(y, x) ELSE 90 * DegUnit - AtanOctant(x, y)

\* math.degrees(math.atan2(y, x)); zneg tells whether a zero y is -0.0
Atan2Deg(y, x, zneg) ==
    IF y = 0 THEN
        IF x >= 0 THEN 0
        ELSE IF zneg THEN 0 - 180 * DegUnit ELSE 180 * DegUnit
    ELSE IF y > 0 THEN
        IF x >= 0 THEN AtanQuadrant(y, x)
        ELSE 180 * DegUnit - AtanQuadrant(y, 0 - x)
    ELSE
        IF x >= 0 THEN 0 - AtanQuadrant(0 - y, x)
        ELSE AtanQuadrant(0 - y, 0 - x) - 180 * DegUnit

(***************************************************************************)
(* compute_raster_angle                                                    *)
(***************************************************************************)
PlanarMask_positiveX(normals) ==
    { i \in 1..Len(normals) : normals[i][1] > PlanarMin }

\* indices of the faces whose XY normal is longer than the threshold
PlanarMask(normals) ==
    { i \in 1..Len(normals) :
        normals[i][1] * normals[i][1] + normals[i][2] * normals[i][2]
            > PlanarMin * PlanarMin }

RECURSIVE SetToSeq(_)
SetToSeq(S) ==
    IF S = {} THEN <<>>
    ELSE LET m == CHOOSE i \in S : \A j \in S : i <= j
         IN  <<m>> \o SetToSeq(S \ {m})

\* np.average(vectors, weights) and np.cov(centered.T, aweights=weights):
\* the covariance times the positive factor W^2 * fact, as [a b; b c];
\* nan when the degrees of freedom W - sum(w^2)/W are not positive (0/0).
WeightedCov(vectors, weights) ==
    LET n   == Len(vectors)
        W   == SeqSum(weights)
        Sx  == SeqSum([i \in 1..n |-> weights[i] * vectors[i][1]])
        Sy  == SeqSum([i \in 1..n |-> weights[i] * vectors[i][2]])
        cx  == [i \in 1..n |-> W * vectors[i][1] - Sx]
        cy  == [i \in 1..n |-> W * vectors[i][2] - Sy]
        dof == W * W - SeqSum([i \in 1..n |-> weights[i] * weights[i]])
    IN  [nan |-> dof <= 0,
         a |-> SeqSum([i \in 1..n |-> weights[i] * cx[i] * cx[i]]),
         b |-> SeqSum([i \in 1..n |-> weights[i] * cx[i] * cy[i]]),
         c |-> SeqSum([i \in 1..n |-> weights[i] * cy[i] * cy[i]])]

\* np.linalg.eigh + argmax: an eigenvector of the largest eigenvalue of
\* [a b; b c].  Eigenvalues come in ascending order, so argmax takes the
\* second column unless they are equal, and then the first, which for a
\* multiple of the identity is the x axis.
PrincipalAxis(cov) ==
    LET r == ISqrt((cov.a - cov.c) * (cov.a - cov.c) + 4 * cov.b * cov.b)
    IN  IF cov.b = 0 THEN
            IF cov.a >= cov.c THEN <<1, 0>> ELSE <<0, 1>>
        ELSE IF cov.a >= cov.c THEN <<(cov.a - cov.c) + r, 2 * cov.b>>
        ELSE <<2 * cov.b, (cov.c - cov.a) + r>>

\* lapack: what the eigen-solver leaves open.  neg: the sign of the
\* eigenvector; zneg: the sign bit of a zero component; raise: whether a NaN
\* matrix ends in LinAlgError instead of NaN eigenvectors.
LapackChoices == [neg : BOOLEAN, zneg : BOOLEAN, raise : BOOLEAN]

\* result: [raised, angle], angle a float that may be NaN
compute_raster_angle(extras, lapack) ==
    LET mask    == SetToSeq(PlanarMask(extras.face_normals))
        vectors == [i \in 1..Len(mask) |-> extras.face_normals[mask[i]]]
        weights == [i \in 1..Len(mask) |-> extras.face_areas[mask[i]]]
        cov     == WeightedCov(vectors, weights)
        axis    == PrincipalAxis(cov)
        s       == IF lapack.neg THEN 0 - 1 ELSE 1
        angle   == Atan2Deg(s * axis[2], s * axis[1], lapack.zneg)
    IN  IF mask = <<>> THEN [raised |-> FALSE, angle |-> NaN]
        ELSE IF cov.nan THEN
            IF lapack.raise THEN [raised |-> TRUE, angle |-> NaN]
            ELSE [raised |-> FALSE, angle |-> NaN]
        ELSE IF angle < 0 THEN [raised |-> FALSE, angle |-> Fin(angle + 180 * DegUnit)]
        ELSE [raised |-> FALSE, angle |-> Fin(angle)]

(***************************************************************************)
(* choose_label                                                            *)
(***************************************************************************)
\* x * (pct / 100) without leaving 32 bits; x is a multiple of 100
Frac(x, pct) == (x \div 100) * pct

\* z_extent = max(float(features[2]), 1e-3)
ZExtent(features) == Max(features[2], ZExtentFloor)

\* depth_ratio > thr, depth_ratio = pocket_depth / z_extent, thr in 1e-4
DepthRatioAbove(pocket_depth, z_extent, thr) ==
    pocket_depth * 10000 > thr * z_extent

\* the rule with non-strict comparisons
WaterlineRule_nonstrict(steep_ratio, pocket_depth, z_extent) ==
    \/ steep_ratio >= SteepWaterline
    \/ /\ steep_ratio >= SteepWithDepth
       /\ pocket_depth * 10000 >= DepthWaterline * z_extent

\* the branch condition of line 360
WaterlineRule(steep_ratio, pocket_depth, z_extent) ==
    \/ steep_ratio > SteepWaterline
    \/ /\ steep_ratio > SteepWithDepth
       /\ DepthRatioAbove(pocket_depth, z_extent, DepthWaterline)

\* the waterline branch sampling the raster range
WaterlineStepOver_rasterRange(k) ==
    sample_uniform(k, Frac(TOOL_DIAMETER_MM, 40), Frac(TOOL_DIAMETER_MM, 65))

\* step-over of the waterline branch, before rounding
WaterlineStepOver(k) ==
    sample_uniform(k, Frac(TOOL_DIAMETER_MM, 18), Frac(TOOL_DIAMETER_MM, 32))

\* the fine-pass rule with "or" in place of "and"
FineRasterRule_either(steep_ratio, pocket_depth, z_extent) ==
    \/ DepthRatioAbove(pocket_depth, z_extent, DepthFine)
    \/ steep_ratio > SteepFine

\* whether the raster step-over is multiplied by 0.85 (line 371)
FineRasterRule(steep_ratio, pocket_depth, z_extent) ==
    /\ DepthRatioAbove(pocket_depth, z_extent, DepthFine)
    /\ steep_ratio > SteepFine

\* step-over of the raster branch, before rounding
RasterStepOver(k, steep_ratio, pocket_depth, z_extent) ==
    LET step_over == sample_uniform(k, Frac(TOOL_DIAMETER_MM, 40),
                                    Frac(TOOL_DIAMETER_MM, 65))
    IN  IF FineRasterRule(steep_ratio, pocket_depth, z_extent)
        THEN (step_over * 17) \div 20
        ELSE step_over

\* the raster angle without the fallback
RasterAngle_noFallback(candidate, k) ==
    IF candidate.nan THEN NaN ELSE Fin(candidate.v % (180 * DegUnit))

\* lines 367-369: the fallback for a non-finite candidate, then % 180.0
RasterAngle(candidate, k) ==
    LET angle_candidate ==
            IF candidate.nan THEN Fin(sample_uniform(k, 0, 180 * DegUnit))
            ELSE candidate
    IN  IF angle_candidate.nan THEN NaN
        ELSE Fin(angle_candidate.v % (180 * DegUnit))

\* round(angle_deg, 2), in 1e-2 degree
RoundAngle(angle) ==
    IF angle.nan THEN NaN ELSE Fin(RoundHalfEven(angle.v, DegUnit \div 100))

\* round(step_over, 3), in 1e-3 mm
RoundStepOver(step_over) == RoundHalfEven(step_over, 10 ^ 4)

\* round(1.0 - abs(0.5 - flat_ratio), 3), in 1e-3
Confidence(flat_ratio) == RoundHalfEven(10000 - Abs(5000 - flat_ratio), 10)

MakeLabel(strategy, angle_deg, step_over, steep_ratio, flat_ratio, pocket_depth, z_extent) ==
    [strategy |-> strategy,
     angle_deg |-> RoundAngle(angle_deg),
     step_over_mm |-> RoundStepOver(step_over),
     source |-> IF OCL_AVAILABLE THEN "ocl" ELSE "heuristic",
     confidence |-> Confidence(flat_ratio),
     steep_ratio |-> steep_ratio,
     flat_ratio |-> flat_ratio,
     pocket_depth_ratio |-> RoundHalfEven(pocket_depth * 10000, z_extent)]

NoLabel ==
    [strategy |-> "none", angle_deg |-> Fin(0), step_over_mm |-> 0,
     source |-> "none", confidence |-> 0, steep_ratio |-> 0,
     flat_ratio |-> 0, pocket_depth_ratio |-> 0]

\* The two branches of choose_label once the rule of line 360 is decided.
\* rng: the values the generator yields, in order; a call consumes one per
\* sample_uniform.  Result: [status, label], status "returned" or "raised".
LabelBranches(waterline, features, extras, rng, lapack) ==
    LET steep_ratio  == extras.steep_ratio
        flat_ratio   == extras.flat_ratio
        pocket_depth == extras.pocket_depth
        z_extent     == ZExtent(features)
        cand         == compute_raster_angle(extras, lapack)
        stepDraw     == IF cand.angle.nan THEN rng[2] ELSE rng[1]
    IN  IF waterline THEN
            [status |-> "returned",
             label |-> MakeLabel("waterline", Fin(0), WaterlineStepOver(rng[1]),
                                 steep_ratio, flat_ratio, pocket_depth, z_extent)]
        ELSE IF cand.raised THEN
            [status |-> "raised", label |-> NoLabel]
        ELSE
            [status |-> "returned",
             label |-> MakeLabel("raster", RasterAngle(cand.angle, rng[1]),
                                 RasterStepOver(stepDraw, steep_ratio,
                                                pocket_depth, z_extent),
                                 steep_ratio, flat_ratio, pocket_depth, z_extent)]

\* a labeller whose rule looks at the first jitter draw
choose_label_jittered(features, extras, rng, lapack) ==
    LabelBranches(WaterlineRule(extras.steep_ratio
                                  + (IF Len(rng) > 0 THEN rng[1] \div 100 ELSE 0),
                                extras.pocket_depth, ZExtent(features)),
                  features, extras, rng, lapack)

choose_label(features, extras, rng, lapack) ==
    LabelBranches(WaterlineRule(extras.steep_ratio, extras.pocket_depth,
                                ZExtent(features)),
                  features, extras, rng, lapack)

(***************************************************************************)
(* Labelling: inputs and the call                                          *)
(***************************************************************************)
MaxLblFaces == 2

\* XY parts of face normals in units of 1e-5 (threshold length 1), and areas
FaceMenu ==
    { [n |-> <<1, 0>>, area |-> 1], [n |-> <<3, 0>>, area |-> 1],
      [n |-> <<0 - 3, 0>>, area |-> 2], [n |-> <<0 - 2, 2>>, area |-> 2] }

FaceLists == UNION { [1..n -> FaceMenu] : n \in 0..MaxLblFaces }

SteepValues == {1800, 1801, 2200, 2201, 3500, 4000}

FlatValues == {1234}

\* <<pocket_depth, bbox_z>> in 1e-4 mm
DepthValues ==
    { <<5, 5>>, <<45, 100>>, <<50, 100>>, <<60, 100>>, <<61, 100>> }

DrawValues == {0, 50001, 99999}

LblIdle == [status |-> "none", label |-> NoLabel]

\* what is kept of the call before: the parts of its outcome that the random
\* source must not decide (the strategy and the confidence, and the angle
\* of a waterline label), and its step-over
Decision(out) ==
    [status |-> out.status, strategy |-> out.label.strategy,
     angle_deg |-> IF out.label.strategy = "waterline"
                   THEN out.label.angle_deg ELSE Fin(0),
     confidence |-> out.label.confidence,
     step_over_mm |-> out.label.step_over_mm]

\* the parts of lapack a call on these inputs reads: none when
\* compute_raster_angle is not called or stops at the empty mask, raise
\* when the covariance is NaN, the signs otherwise
LapackFor(features, extras) ==
    LET mask    == SetToSeq(PlanarMask(extras.face_normals))
        weights == [i \in 1..Len(mask) |-> extras.face_areas[mask[i]]]
        vectors == [i \in 1..Len(mask) |-> extras.face_normals[mask[i]]]
    IN  IF \/ WaterlineRule(extras.steep_ratio, extras.pocket_depth,
                            ZExtent(features))
           \/ mask = <<>>
        THEN { l \in LapackChoices : ~l.neg /\ ~l.zneg /\ ~l.raise }
        ELSE IF WeightedCov(vectors, weights).nan
        THEN { l \in LapackChoices : ~l.neg /\ ~l.zneg }
        ELSE { l \in LapackChoices : ~l.raise }

\* number of draws a call on these inputs takes from the generator
DrawsTaken(features, extras, lapack) ==
    IF WaterlineRule(extras.steep_ratio, extras.pocket_depth, ZExtent(features))
    THEN 1
    ELSE LET cand == compute_raster_angle(extras, lapack)
         IN  IF cand.raised THEN 0 ELSE IF cand.angle.nan THEN 2 ELSE 1

\* lblCand while compute_raster_angle has not been called
NoCand == [raised |-> FALSE, angle |-> Fin(0)]

LblInit ==
    /\ \E s \in SteepValues, f \in FlatValues, d \in DepthValues,
          fl \in FaceLists :
       /\ lblFeatures = [i \in 0..14 |-> IF i = 2 THEN d[2] ELSE 0]
       /\ lblExtras = [steep_ratio |-> s, flat_ratio |-> f, pocket_depth |-> d[1],
                       face_normals |-> [i \in 1..Len(fl) |-> fl[i].n],
                       face_areas |-> [i \in 1..Len(fl) |-> fl[i].area]]
    /\ lblOut = LblIdle
    /\ lblPrev = Decision(LblIdle)
    /\ lblRng = <<>>
    /\ lblCand = NoCand

BinIdle ==
    /\ binSlope = 0
    /\ binOut = [gen |-> 0, eval |-> 0, genDone |-> FALSE, evalDone |-> FALSE]

\* the training script has not been started
TrainIdle ==
    /\ simOut = [status |-> "none"]
    /\ trainRun = [pc |-> "idle", use_v2 |-> FALSE, samples |-> 0, built |-> 0,
                   trained |-> FALSE, files |-> {},
                   card |-> [status |-> "none"], card_names |-> <<>>,
                   card_scale |-> <<>>]

\* the dataset generator's main has not been started
RunIdle == genRun = [pc |-> "idle"]

\* the dependency check has not been started
DepsIdle ==
    /\ depCfg = <<>>
    /\ depRun = [pc |-> "idle"]

\* the tools outside the specification at hand are idle
\* the evaluator has made no prediction
InferIdle ==
    /\ inferIn = <<>>
    /\ inferOut = [status |-> "none"]
    /\ evalRow = [status |-> "none"]

\* train_model has not been called
FitIdle == fitRun = [pc |-> "idle"]

\* build_feature_vector has not been called
VecIdle ==
    /\ vecIn = <<>>
    /\ vecOut = [status |-> "none"]

\* load_model_card has not been called
CardIdle ==
    /\ cardIn = <<>>
    /\ cardOut = [status |-> "idle"]

ToolsIdle == DepsIdle /\ InferIdle /\ FitIdle /\ VecIdle /\ CardIdle

\* the generator has no dataset under way
DatasetIdle == dataset = [pc |-> "idle"]

MeshIdle ==
    /\ mesh = [vertices |-> <<>>, faces |-> <<>>, hull |-> [raised |-> FALSE, volume |-> 0]]
    /\ genOut = <<>>
    /\ evalOut = <<>>
    /\ meshOps = 0

\* label = choose_label(feature_vec, extras, rng)   (main, line 482)
ChooseLabel ==
    /\ \E lapack \in LapackFor(lblFeatures, lblExtras) :
       \E rng \in [1..DrawsTaken(lblFeatures, lblExtras, lapack) -> DrawValues] :
          /\ lblOut' = choose_label(lblFeatures, lblExtras, rng, lapack)
          /\ lblCand' =
                IF lblOut'.label.strategy = "waterline" THEN NoCand
                ELSE compute_raster_angle(lblExtras, lapack)
          /\ lblRng' = rng
    /\ lblPrev' = Decision(lblOut)
    /\ UNCHANGED <<lblFeatures, lblExtras, binVars, meshVars, trainVars, runVars, allToolVars>>

\* a labelling run: the other components stay idle
InitLabel == LblInit /\ BinIdle /\ MeshIdle /\ TrainIdle /\ RunIdle /\ ToolsIdle /\ DatasetIdle

SpecLabel ==
    /\ InitLabel
    /\ [][ChooseLabel]_vars

(***************************************************************************)
(* Slope binning.  Slopes are in 1e-1 degree, so 90.1 is 901.              *)
(***************************************************************************)
SLOPE_BIN_BOUNDARIES == <<0, 150, 300, 450, 600, 901>>

SLOPE_BIN_COUNT == Len(SLOPE_BIN_BOUNDARIES) - 1

SLOPE_BOUNDS_DEG == <<0, 150, 300, 450, 600, 901>>

DEFAULT_FEATURE_ORDER ==
    << "bbox_x_mm", "bbox_y_mm", "bbox_z_mm", "surface_area_mm2",
       "volume_mm3", "slope_bin_0_15", "slope_bin_15_30", "slope_bin_30_45",
       "slope_bin_45_60", "slope_bin_60_90", "mean_curvature_rad",
       "curvature_variance_rad2", "flat_area_ratio", "steep_area_ratio",
       "pocket_depth_mm", "user_step_over_mm", "tool_diameter_mm" >>

\* np.digitize(x, bins) with right=True: bins[i-1] < x <= bins[i]
Digitize_right(x, bins) == Cardinality({ i \in 1..Len(bins) : bins[i] < x })

\* np.digitize(x, bins), right=False, increasing bins: the number of bins
\* entries that are <= x, so that bins[i-1] <= x < bins[i]
Digitize(x, bins) == Cardinality({ i \in 1..Len(bins) : bins[i] <= x })

\* generator: np.clip(np.digitize(slopes, SLOPE_BIN_BOUNDARIES) - 1, 0, 4)
GenSlopeBin(slope) ==
    Max(0, Min(SLOPE_BIN_COUNT - 1, Digitize(slope, SLOPE_BIN_BOUNDARIES) - 1))

\* evaluator: np.digitize(slopes_deg, SLOPE_BOUNDS_DEG[1:-1], right=False)
EvalSlopeBin(slope) ==
    Digitize(slope, SubSeq(SLOPE_BOUNDS_DEG, 2, Len(SLOPE_BOUNDS_DEG) - 1))

\* slopes_deg < 15.0 and slopes_deg >= 60.0
IsFlat(slope) == slope < 150

\* steep from 45 degrees on
IsSteep_from45(slope) == slope >= 450

IsSteep(slope) == slope >= 600

\* every slope acos(clip(|n_z|, 0, 1)) can take, in 1e-1 degree
SlopeValues == 0..(90 * 10)

BinInit ==
    /\ binSlope \in SlopeValues
    /\ binOut = [gen |-> 0, eval |-> 0, genDone |-> FALSE, evalDone |-> FALSE]

\* compute_feature_vector, lines 273-274, for one face
GenBin ==
    /\ ~binOut.genDone
    /\ binOut' = [binOut EXCEPT !.gen = GenSlopeBin(binSlope), !.genDone = TRUE]
    /\ UNCHANGED <<binSlope, lblVars, meshVars, trainVars, runVars, allToolVars>>

\* compute_global_features, line 208, for one face
EvalBin ==
    /\ ~binOut.evalDone
    /\ binOut' = [binOut EXCEPT !.eval = EvalSlopeBin(binSlope), !.evalDone = TRUE]
    /\ UNCHANGED <<binSlope, lblVars, meshVars, trainVars, runVars, allToolVars>>

LblIdleInit ==
    /\ lblFeatures = <<>>
    /\ lblExtras = <<>>
    /\ lblOut = LblIdle
    /\ lblPrev = Decision(LblIdle)
    /\ lblRng = <<>>
    /\ lblCand = NoCand

\* a binning run: the other components stay idle
InitBin == BinInit /\ LblIdleInit /\ MeshIdle /\ TrainIdle /\ RunIdle /\ ToolsIdle /\ DatasetIdle

SpecBin ==
    /\ InitBin
    /\ [][GenBin \/ EvalBin]_vars

(***************************************************************************)
(* Mesh geometry.  Coordinates are integers in units of 1e-3 mm, so a      *)
(* cross product is in units of 1e-6 mm^2 (= EPSILON) and a determinant    *)
(* p0 . (p1 x p2) in units of 1e-9 mm^3.  Norms carry one more decimal     *)
(* digit (units of 1e-7 mm^2); an area 0.5 * norm is counted in halves of  *)
(* that unit, so that it is the same integer as the norm.                  *)
(***************************************************************************)
EPSILON == 10

Sub(p, q) == <<p[1] - q[1], p[2] - q[2], p[3] - q[3]>>

Cross(u, v) ==
    <<u[2] * v[3] - u[3] * v[2], u[3] * v[1] - u[1] * v[3],
      u[1] * v[2] - u[2] * v[1]>>

Dot(u, v) == u[1] * v[1] + u[2] * v[2] + u[3] * v[3]

\* np.linalg.norm, in 1e-7 mm^2
Norm(c) == ISqrt(Dot(c, c) * 100)

Corner(m, f, k) == m.vertices[m.faces[f][k]]

\* np.cross(p1 - p0, p2 - p0) of face f
FaceCross(m, f) ==
    Cross(Sub(Corner(m, f, 2), Corner(m, f, 1)),
          Sub(Corner(m, f, 3), Corner(m, f, 1)))

\* 0.5 * cross_norm, in halves of 1e-7 mm^2
TriArea(m, f) == Norm(FaceCross(m, f))

\* CosSqE4[d + 1] = cos(d degrees)^2 * 10^4, d = 0..90
CosSqE4 ==
    << 10000, 9997, 9988, 9973, 9951, 9924, 9891, 9851, 9806, 9755, 9698,
       9636, 9568, 9494, 9415, 9330, 9240, 9145, 9045, 8940, 8830, 8716,
       8597, 8473, 8346, 8214, 8078, 7939, 7796, 7650, 7500, 7347, 7192,
       7034, 6873, 6710, 6545, 6378, 6210, 6040, 5868, 5696, 5523, 5349,
       5174, 5000, 4826, 4651, 4477, 4304, 4132, 3960, 3790, 3622, 3455,
       3290, 3127, 2966, 2808, 2653, 2500, 2350, 2204, 2061, 1922, 1786,
       1654, 1527, 1403, 1284, 1170, 1060, 955, 855, 760, 670, 585, 506,
       432, 364, 302, 245, 194, 149, 109, 76, 49, 27, 12, 3, 0 >>

\* np.degrees(np.arccos(np.clip(np.abs(n_z), 0.0, 1.0))) of the unit normal
\* c / |c| (of the zero normal when zero is TRUE), cut to whole degrees and
\* given in 1e-1 degree
SlopeOf(c, zero) ==
    LET r == IF zero THEN 0 ELSE (c[3] * c[3] * 10000) \div Dot(c, c)
        d == CHOOSE e \in 0..90 :
                 /\ CosSqE4[e + 1] >= r
                 /\ (e = 90 \/ CosSqE4[e + 2] < r)
    IN  d * 10

\* a quotient of two floats, kept exact
Ratio(n, d) == [num |-> n, den |-> d]

\* per-axis max - min over the vertices with the given indices
Extent(m, used, axis) ==
    LET cs == { m.vertices[v][axis] : v \in used }
    IN  (CHOOSE x \in cs : \A y \in cs : y <= x)
        - (CHOOSE x \in cs : \A y \in cs : x <= y)

\* sum of p0 . (p1 x p2) over all faces: six times the signed volume
SignedVolume6(m) ==
    SeqSum([f \in 1..Len(m.faces) |->
               Dot(Corner(m, f, 1), Cross(Corner(m, f, 2), Corner(m, f, 3)))])

\* sum of weight[f] over the faces f of the set
AreaOver(m, fs) ==
    SeqSum([f \in 1..Len(m.faces) |-> IF f \in fs THEN TriArea(m, f) ELSE 0])

\* a zero-filled record in place of the exception
Raised_zeroFilled(msg) ==
    [status |-> "returned", surface_area_mm2 |-> 0, volume_mm3 |-> 0,
     error |-> msg]

Raised(msg) == [status |-> "raised", error |-> msg]

(***************************************************************************)
(* Curvature samples.  Unit normals are kept to two decimals, angles in    *)
(* whole degrees.  An incidence is a number i in 1..3*|faces|: corner      *)
(* IncCorner(i) of face IncFace(i).                                        *)
(***************************************************************************)
SDiv(a, b) == IF a >= 0 THEN a \div b ELSE 0 - ((0 - a) \div b)

ZeroVec == <<0, 0, 0>>

Add(u, v) == <<u[1] + v[1], u[2] + v[2], u[3] + v[3]>>

\* c / |c|, times 100; the zero vector for c = 0
UnitDir(c) ==
    LET n == Norm(c)
    IN  IF Dot(c, c) = 0 THEN ZeroVec
        ELSE <<SDiv(c[1] * 1000, n), SDiv(c[2] * 1000, n), SDiv(c[3] * 1000, n)>>

Incidences(m) == 1..(3 * Len(m.faces))

IncFace(i) == ((i - 1) \div 3) + 1

IncCorner(i) == ((i - 1) % 3) + 1

IncVertex(m, i) == m.faces[IncFace(i)][IncCorner(i)]

RECURSIVE VecSum(_)
VecSum(vs) == IF vs = <<>> THEN ZeroVec ELSE Add(Head(vs), VecSum(Tail(vs)))

\* np.add.at(vertex_normals, faces[:, k], face_normals), k = 0, 1, 2, for
\* vertex v: the sum of normals[f] over the incidences of v
RECURSIVE NormalSumUpTo(_, _, _, _)
NormalSumUpTo(m, normals, v, i) ==
    IF i = 0 THEN ZeroVec
    ELSE IF IncVertex(m, i) = v
    THEN Add(NormalSumUpTo(m, normals, v, i - 1), normals[IncFace(i)])
    ELSE NormalSumUpTo(m, normals, v, i - 1)

NormalSumAt(m, normals, v) == NormalSumUpTo(m, normals, v, 3 * Len(m.faces))

\* cos of the angle between s and n, times 1000, clipped to [-1, 1]; 0 when
\* one of them is the zero vector (their dot product is 0 then)
CosE3(s, n) ==
    IF Dot(s, s) = 0 \/ Dot(n, n) = 0 THEN 0
    ELSE Max(0 - 1000,
             Min(1000, SDiv(Dot(s, n) * 1000,
                            ISqrt(Dot(s, s)) * ISqrt(Dot(n, n)))))

\* acos in whole degrees
AcosDeg(c) ==
    LET r == (c * c) \div 100
        d == CHOOSE e \in 0..90 :
                 /\ CosSqE4[e + 1] >= r
                 /\ (e = 90 \/ CosSqE4[e + 2] < r)
    IN  IF c >= 0 THEN d ELSE 180 - d

\* the sums of all vertices (a vertex of no face has the zero vector)
NormalSums(m, normals) ==
    [v \in 1..Len(m.vertices) |-> NormalSumAt(m, normals, v)] \o <<>>

\* the angle between the face normal and the vertex normal at every incidence
IncidenceAngles(m, normals) ==
    LET sums == NormalSums(m, normals)
    IN  [i \in Incidences(m) |->
            AcosDeg(CosE3(sums[IncVertex(m, i)], normals[IncFace(i)]))] \o <<>>

\* mean() and var() of the samples kept, [0, 0] when there is none
CurvatureStats(angle, kept) ==
    LET idx  == SetToSeq(kept)
        n    == Len(idx)
        smp  == [j \in 1..n |-> angle[idx[j]]] \o <<>>
        mean == SeqSum(smp) \div n
        dev  == [j \in 1..n |-> (smp[j] - mean) * (smp[j] - mean)] \o <<>>
    IN  IF kept = {} THEN [mean |-> 0, variance |-> 0, samples |-> 0]
        ELSE [mean |-> mean, variance |-> SeqSum(dev) \div n, samples |-> n]

\* evaluator, lines 195-198 and 223-237: face_normals is zero off the valid
\* mask, vertex normals are the normalised sums (zero up to EPSILON, which
\* is below the two decimals kept here), one sample per valid face and
\* corner whose vertex normal is nonzero
EvalFaceNormals(m) ==
    [f \in 1..Len(m.faces) |->
        IF Norm(FaceCross(m, f)) > EPSILON THEN UnitDir(FaceCross(m, f))
        ELSE ZeroVec] \o <<>>

EvalSampled(m) ==
    LET fn == EvalFaceNormals(m)
        sums == NormalSums(m, fn)
    IN  { i \in Incidences(m) :
            fn[IncFace(i)] # ZeroVec /\ sums[IncVertex(m, i)] # ZeroVec }

EvalCurvature(m) ==
    CurvatureStats(IncidenceAngles(m, EvalFaceNormals(m)), EvalSampled(m))

\* generator, lines 283-297: mesh.face_normals is zero for a face without
\* area, mesh.vertex_normals the normalised sum of the incident face
\* normals (trimesh weights them by corner angle, taken as equal here), and
\* every corner of every face appends a sample
GenFaceNormals(m) ==
    [f \in 1..Len(m.faces) |-> UnitDir(FaceCross(m, f))] \o <<>>

GenSampled(m) == Incidences(m)

GenCurvature(m) ==
    CurvatureStats(IncidenceAngles(m, GenFaceNormals(m)), GenSampled(m))

(***************************************************************************)
(* compute_global_features (evaluator)                                     *)
(***************************************************************************)
\* abs(enclosed_volume), times six
EvalVolume6(m) == Abs(SignedVolume6(m))

\* the denominator of the histogram and of the flat/steep ratios:
\* surface_area = tri_area.sum() over all faces
EvalSurfaceArea(m) == AreaOver(m, 1..Len(m.faces))

compute_global_features(m) ==
    LET F       == 1..Len(m.faces)
        valid   == { f \in F : Norm(FaceCross(m, f)) > EPSILON }
        surface_area == EvalSurfaceArea(m)
        slope   == [f \in valid |-> SlopeOf(FaceCross(m, f), FALSE)]
        bin     == [f \in valid |-> EvalSlopeBin(slope[f])]
        slope_area == [b \in 0..4 |-> AreaOver(m, { f \in valid : bin[f] = b })]
        flat_area  == AreaOver(m, { f \in valid : IsFlat(slope[f]) })
        steep_area == AreaOver(m, { f \in valid : IsSteep(slope[f]) })
        V       == 1..Len(m.vertices)
        curvature == EvalCurvature(m)
    IN  IF Len(m.vertices) = 0 \/ Len(m.faces) = 0
        THEN Raised("Mesh is empty.")
        ELSE IF valid = {}
        THEN Raised("Mesh has zero-area faces only.")
        ELSE IF surface_area <= 2 * EPSILON
        THEN Raised("Surface area is zero after filtering degenerate triangles.")
        ELSE [status |-> "returned",
              bbox_x_mm |-> Extent(m, V, 1),
              bbox_y_mm |-> Extent(m, V, 2),
              bbox_z_mm |-> Extent(m, V, 3),
              surface_area_mm2 |-> surface_area,
              volume_mm3 |-> EvalVolume6(m),
              slope_bin |-> [b \in 0..4 |-> Ratio(slope_area[b], surface_area)],
              mean_curvature_rad |-> curvature.mean,
              curvature_variance_rad2 |-> curvature.variance,
              flat_area_ratio |-> Ratio(flat_area, surface_area),
              steep_area_ratio |-> Ratio(steep_area, surface_area),
              pocket_depth_mm |-> Max(Extent(m, V, 3), 0)]

\* an entry of a feature vector: the quantity the code puts at that place
\* and its value
Entry(q, v) == [q |-> q, v |-> v]

\* the five bins of the slope histogram as quantities
SlopeBinQuantity ==
    << "slope_bin_0", "slope_bin_1", "slope_bin_2", "slope_bin_3",
       "slope_bin_4" >>

(***************************************************************************)
(* compute_feature_vector (generator), over trimesh's mesh properties      *)
(***************************************************************************)
\* mesh.face_normals is the zero vector for a face whose cross product is 0
ZeroNormal(m, f) == Dot(FaceCross(m, f), FaceCross(m, f)) = 0

\* vertices some face refers to (mesh.bounds covers these)
Referenced(m) == { m.faces[f][k] : f \in 1..Len(m.faces), k \in 1..3 }

\* abs(raw_volume) < 1e-6 (mesh.volume is finite for finite vertices)
NearZeroVolume(m) == Abs(SignedVolume6(m)) < 6 * 1000

\* the volume without abs()
GenVolume6_signed(m) ==
    IF NearZeroVolume(m) THEN m.hull.volume ELSE SignedVolume6(m)

\* lines 262-265: mesh.volume, the convex hull's volume when that is below
\* 1e-6 in magnitude, then abs(); times six
GenVolume6(m) ==
    LET raw_volume == IF NearZeroVolume(m) THEN m.hull.volume
                      ELSE SignedVolume6(m)
    IN  Abs(raw_volume)

\* lines 275-278: the accumulated bins, divided by their sum when positive
GenHistogram(hist) ==
    LET total == SeqSum([i \in 1..5 |-> hist[i - 1]])
    IN  [b \in 0..4 |-> Ratio(hist[b], IF total > 0 THEN total ELSE 1)]

compute_feature_vector(m) ==
    LET F       == 1..Len(m.faces)
        used    == Referenced(m)
        slope   == [f \in F |-> SlopeOf(FaceCross(m, f), ZeroNormal(m, f))]
        bin     == [f \in F |-> GenSlopeBin(slope[f])]
        area    == AreaOver(m, F)
        \* max(float(face_areas.sum()), 1e-9): 1e-9 is below one area unit
        total_area == IF area > 0 THEN area ELSE 1
        hist    == [b \in 0..4 |-> AreaOver(m, { f \in F : bin[f] = b })]
        curvature == GenCurvature(m)
        histogram == GenHistogram(hist)
        flat_ratio ==
            Ratio(AreaOver(m, { f \in F : IsFlat(slope[f]) }), total_area)
        steep_ratio ==
            Ratio(AreaOver(m, { f \in F : IsSteep(slope[f]) }), total_area)
        \* lines 302-314
        features ==
            << Entry("bbox_x", Extent(m, used, 1)),
               Entry("bbox_y", Extent(m, used, 2)),
               Entry("bbox_z", Extent(m, used, 3)),
               Entry("surface_area", area),
               Entry("volume", GenVolume6(m)) >>
            \o [i \in 1..5 |-> Entry(SlopeBinQuantity[i], histogram[i - 1])]
            \o << Entry("mean_curvature", curvature.mean),
                  Entry("curvature_variance", curvature.variance),
                  Entry("flat_ratio", flat_ratio),
                  Entry("steep_ratio", steep_ratio),
                  Entry("pocket_depth", Extent(m, used, 3)) >>
    IN  IF used = {}
        THEN Raised("mesh.bounds is None")
        ELSE IF NearZeroVolume(m) /\ m.hull.raised
        THEN Raised("QhullError")
        ELSE [status |-> "returned",
              bbox |-> [a \in 1..3 |-> Extent(m, used, a)],
              surface_area |-> area,
              volume |-> GenVolume6(m),
              features |-> features,
              slope_histogram |-> histogram,
              mean_curvature |-> curvature.mean,
              curvature_variance |-> curvature.variance,
              flat_ratio |-> flat_ratio,
              steep_ratio |-> steep_ratio,
              pocket_depth |-> Extent(m, used, 3)]

(***************************************************************************)
(* Feature extraction: meshes and the calls                                *)
(***************************************************************************)
MaxFaces == 2

MeshVertices ==
    << <<0, 0, 0>>, <<1, 0, 0>>, <<0, 1, 0>>, <<2, 0, 0>>, <<20, 0, 0>>,
       <<0, 20, 0>>, <<0, 0, 20>>, <<0, 20, 20>> >>

\* faces by vertex index: flat and valid; flat with cross norm = EPSILON;
\* collinear; slanted (54.7 degrees) and away from the origin; vertical;
\* at 45 degrees; the first one facing the other way
MeshFaceMenu ==
    { <<1, 4, 3>>, <<1, 2, 3>>, <<1, 2, 4>>, <<5, 6, 7>>, <<1, 5, 7>>,
      <<1, 5, 8>>, <<1, 3, 4>> }

\* what mesh.convex_hull.volume may do: qhull fails on flat input, and
\* otherwise reports a volume, never negative and a function of the vertices
\* alone; times six
HullResults ==
    { [raised |-> TRUE, volume |-> 0], [raised |-> FALSE, volume |-> 48000] }

NotRun == [status |-> "none"]

MeshInit ==
    /\ \E n \in 0..MaxFaces : \E fs \in [1..n -> MeshFaceMenu] :
       \E h \in HullResults : \E vs \in {<<>>, MeshVertices} :
          /\ vs = <<>> => fs = <<>>
          /\ mesh = [vertices |-> vs, faces |-> fs, hull |-> h]
    /\ genOut = [o \in 0..1 |-> NotRun]
    /\ evalOut = [o \in 0..1 |-> NotRun]
    /\ meshOps = 0

\* feature_vec, extras = compute_feature_vector(mesh)   (main, line 481)
ComputeFeatureVector ==
    /\ genOut[meshOps] = NotRun
    /\ genOut' = [genOut EXCEPT ![meshOps] = compute_feature_vector(mesh)]
    /\ UNCHANGED <<mesh, evalOut, meshOps, lblVars, binVars, trainVars, runVars, allToolVars>>

\* features = compute_global_features(mesh)   (run_eval.py main)
ComputeGlobalFeatures ==
    /\ evalOut[meshOps] = NotRun
    /\ evalOut' = [evalOut EXCEPT ![meshOps] = compute_global_features(mesh)]
    /\ UNCHANGED <<mesh, genOut, meshOps, lblVars, binVars, trainVars, runVars, allToolVars>>

\* the same mesh with the winding order of every face reversed; reversing
\* twice gives the first winding again
ReverseWinding ==
    /\ mesh' = [mesh EXCEPT !.faces =
                   [f \in 1..Len(mesh.faces) |->
                       <<mesh.faces[f][1], mesh.faces[f][3], mesh.faces[f][2]>>]]
    /\ meshOps' = 1 - meshOps
    /\ UNCHANGED <<genOut, evalOut, lblVars, binVars, trainVars, runVars, allToolVars>>

\* a feature-extraction run: the other components stay idle
InitMesh == MeshInit /\ LblIdleInit /\ BinIdle /\ TrainIdle /\ RunIdle /\ ToolsIdle /\ DatasetIdle

SpecMesh ==
    /\ InitMesh
    /\ [][ComputeFeatureVector \/ ComputeGlobalFeatures \/ ReverseWinding]_vars

(***************************************************************************)
(* Training script: feature names and the feature simulator.  Lengths in   *)
(* a feature vector are in 1e-2 mm, areas in mm^2, volumes in mm^3, ratios *)
(* and curvatures in 1e-4, the tool diameter and step-overs in 1e-3 mm,    *)
(* angles in 1e-4 degree.  An entry of a feature vector is a pair of the   *)
(* quantity the code puts there (q) and its value (v), see Entry.           *)
(***************************************************************************)
FEATURE_NAMES_V1 ==
    << "bbox_x_mm", "bbox_y_mm", "bbox_z_mm", "surface_area_mm2",
       "user_step_over_mm", "tool_diameter_mm" >>

\* the v2 names with volume and surface area in each other's place
FEATURE_NAMES_V2_swapped ==
    << "bbox_x_mm", "bbox_y_mm", "bbox_z_mm", "volume_mm3",
       "surface_area_mm2", "slope_bin_0_15", "slope_bin_15_30",
       "slope_bin_30_45", "slope_bin_45_60", "slope_bin_60_90",
       "mean_curvature_rad", "curvature_variance_rad2", "flat_area_ratio",
       "steep_area_ratio", "pocket_depth_mm", "user_step_over_mm",
       "tool_diameter_mm" >>

FEATURE_NAMES_V2 ==
    << "bbox_x_mm", "bbox_y_mm", "bbox_z_mm", "surface_area_mm2",
       "volume_mm3", "slope_bin_0_15", "slope_bin_15_30", "slope_bin_30_45",
       "slope_bin_45_60", "slope_bin_60_90", "mean_curvature_rad",
       "curvature_variance_rad2", "flat_area_ratio", "steep_area_ratio",
       "pocket_depth_mm", "user_step_over_mm", "tool_diameter_mm" >>

EXPECTED_FEATURE_COUNT == 17

get_feature_names(use_v2) == IF use_v2 THEN FEATURE_NAMES_V2 ELSE FEATURE_NAMES_V1

\* np.clip(x, lo, hi)
Clip(x, lo, hi) == Max(lo, Min(x, hi))

\* generate_sample(rng, use_v2); d holds the values the rng hands out, in the
\* order of the calls: bbox (whole mm), tool (1e-3 mm), the factors as
\* percentages, the Dirichlet vector and the normal draws in 1e-4
generate_sample(d, use_v2) ==
    LET swap     == d.bbox[2] > d.bbox[1]
        bbox_x   == IF swap THEN d.bbox[2] ELSE d.bbox[1]
        bbox_y   == IF swap THEN d.bbox[1] ELSE d.bbox[2]
        bbox_z   == d.bbox[3]
        surface_area == 2 * (bbox_x * bbox_y + bbox_x * bbox_z + bbox_y * bbox_z)
        volume   == bbox_x * bbox_y * bbox_z
        tool_diameter == d.tool
        step_hint == (tool_diameter * d.hint_pct) \div 100
        \* bbox_x >= 60 here, far above the 1e-6 floor of aspect_zx
        flatness_ratio == (bbox_z * 10000) \div Max(bbox_x, bbox_y)
        aspect_zx == (bbox_z * 10000) \div bbox_x
        slope_bins == d.dirichlet
        flat_ratio == slope_bins[1]
        steep_ratio == slope_bins[5]
        mean_curv == Abs(d.curv_mean)
        var_curv == Abs(d.curv_var)
        pocket_depth == bbox_z * d.pocket_pct
        area_with_noise == (surface_area * d.area_pct) \div 100
        volume_with_noise == (volume \div 100) * d.volume_pct
        features ==
            IF use_v2
            THEN << Entry("bbox_x", bbox_x * 100), Entry("bbox_y", bbox_y * 100),
                    Entry("bbox_z", bbox_z * 100),
                    Entry("surface_area", area_with_noise),
                    Entry("volume", volume_with_noise) >>
                 \o [i \in 1..5 |-> Entry(SlopeBinQuantity[i], slope_bins[i])]
                 \o << Entry("mean_curvature", mean_curv),
                       Entry("curvature_variance", var_curv),
                       Entry("flat_ratio", flat_ratio),
                       Entry("steep_ratio", steep_ratio),
                       Entry("pocket_depth", pocket_depth),
                       Entry("step_over", step_hint),
                       Entry("tool_diameter", tool_diameter) >>
            ELSE << Entry("bbox_x", bbox_x * 100), Entry("bbox_y", bbox_y * 100),
                    Entry("bbox_z", bbox_z * 100),
                    Entry("surface_area", surface_area),
                    Entry("step_over", step_hint),
                    Entry("tool_diameter", tool_diameter) >>
        combined_indicator ==
            (5 * flatness_ratio + 3 * aspect_zx + 2 * d.steepness) \div 10
        decision == combined_indicator + d.decision_noise
        base_angle == Atan2Deg(bbox_y, bbox_x, FALSE)
        raster   == decision < 4500
        angle    == IF raster
                    THEN Clip(base_angle + d.angle_noise, 0, 180 * DegUnit)
                    ELSE Clip(d.angle_uniform + 15 * flatness_ratio, 0,
                              45 * DegUnit)
        step     == IF raster
                    THEN Min((step_hint * d.step_pct_raster) \div 100,
                             (tool_diameter * 9) \div 10)
                    ELSE Min((step_hint * d.step_pct_waterline) \div 100,
                             (tool_diameter * 7) \div 10)
    IN  [status |-> "returned",
         features |-> features,
         strategy_idx |-> IF raster THEN 0 ELSE 1,
         angle_deg |-> Clip(angle, 0, 180 * DegUnit),
         step_over |-> Max(step, tool_diameter \div 10)]

\* values the generator hands out during one call, each inside the range of
\* its rng call
SimDraws ==
    [bbox : {<<60, 40, 15>>, <<100, 110, 60>>},
     tool : {6000},
     hint_pct : {45},
     dirichlet : {<<2500, 1000, 1500, 2000, 3000>>},
     curv_mean : {0 - 100},
     curv_var : {200},
     pocket_pct : {60, 99},
     area_pct : {85},
     volume_pct : {114},
     steepness : {5000},
     decision_noise : {0 - 500, 3000},
     angle_noise : {0 - 80000},
     angle_uniform : {25000},
     step_pct_raster : {109},
     step_pct_waterline : {35}]

\* features, strategy, angle, step = generate_sample(rng, use_v2)
GenerateSample ==
    /\ trainRun.pc = "idle"
    /\ simOut.status = "none"
    /\ \E d \in SimDraws : \E use_v2 \in BOOLEAN :
          simOut' = generate_sample(d, use_v2)
    /\ UNCHANGED <<trainRun, lblVars, binVars, meshVars, runVars, allToolVars>>

(***************************************************************************)
(* Training script: model card and main                                    *)
(***************************************************************************)
build_feature_scale(use_v2) ==
    IF use_v2
    THEN << 100, 100, 100, 10000, 1000000, 1, 1, 1, 1, 1, 1, 1, 1, 1, 100,
            10, 10 >>
    ELSE << 100, 100, 100, 10000, 10, 10 >>

\* the card for any names and any scale, without the two checks
make_model_card_unchecked(feature_names, feature_scale) ==
    [status |-> "returned",
     features |-> [count |-> Len(feature_names), names |-> feature_names,
                   normalize |-> [mean |-> [i \in 1..Len(feature_names) |-> 0],
                                  std |-> feature_scale]]]

\* the arguments that do not bear on the outcome (model_type, framework,
\* versions, dataset, created_at, metrics) are left out of the card
make_model_card(feature_names, feature_scale) ==
    LET feature_count == Len(feature_names)
    IN  IF feature_count # EXPECTED_FEATURE_COUNT
        THEN Raised("model card schema expects 17 features")
        ELSE IF Len(feature_scale) # feature_count
        THEN Raised("feature_scale must contain feature_count entries")
        ELSE [status |-> "returned",
              features |-> [count |-> feature_count, names |-> feature_names,
                            normalize |-> [mean |-> [i \in 1..feature_count |-> 0],
                                           std |-> feature_scale]]]

MaxSamples == 2

\* name lists and scales a caller may hand to make_model_card
CardNames ==
    { FEATURE_NAMES_V1, FEATURE_NAMES_V2, SubSeq(FEATURE_NAMES_V2, 1, 16),
      FEATURE_NAMES_V2 \o <<"extra">> }

CardScales ==
    { build_feature_scale(FALSE), build_feature_scale(TRUE),
      SubSeq(build_feature_scale(TRUE), 1, 16) }

\* make_model_card(...) called on its own
CallMakeModelCard ==
    /\ trainRun.pc = "idle"
    /\ \E names \in CardNames : \E scale \in CardScales :
          trainRun' = [trainRun EXCEPT !.card = make_model_card(names, scale),
                                       !.card_names = names,
                                       !.card_scale = scale]
    /\ UNCHANGED <<simOut, lblVars, binVars, meshVars, runVars, allToolVars>>

\* main, lines 635-647: the arguments, the names and the scale, and the
\* RuntimeError unless there are EXPECTED_FEATURE_COUNT names
TrainStart ==
    /\ trainRun.pc = "idle"
    /\ \E use_v2 \in BOOLEAN : \E samples \in 0..MaxSamples :
          trainRun' = [trainRun EXCEPT
              !.use_v2 = use_v2,
              !.samples = samples,
              !.pc = IF Len(get_feature_names(use_v2)) # EXPECTED_FEATURE_COUNT
                     THEN "failed" ELSE "dataset"]
    /\ UNCHANGED <<simOut, lblVars, binVars, meshVars, runVars, allToolVars>>

\* build_dataset, lines 213-231: one generate_sample call per sample, then
\* np.stack, which raises for an empty list
BuildDataset ==
    /\ trainRun.pc = "dataset"
    /\ IF trainRun.built < trainRun.samples
       THEN /\ \E d \in SimDraws :
                  simOut' = generate_sample(d, trainRun.use_v2)
            /\ trainRun' = [trainRun EXCEPT !.built = @ + 1]
       ELSE /\ trainRun' = [trainRun EXCEPT
                   !.pc = IF trainRun.built = 0 THEN "failed" ELSE "train"]
            /\ UNCHANGED simOut
    /\ UNCHANGED <<lblVars, binVars, meshVars, runVars, allToolVars>>

\* train_model, lines 657-670; what the optimiser computes is left open
TrainModel ==
    /\ trainRun.pc = "train"
    /\ trainRun' = [trainRun EXCEPT !.trained = TRUE, !.pc = "export"]
    /\ UNCHANGED <<simOut, lblVars, binVars, meshVars, runVars, allToolVars>>

\* lines 672-685: the TorchScript file, the ONNX file and the schema JSON
ExportArtefacts ==
    /\ trainRun.pc = "export"
    /\ trainRun' = [trainRun EXCEPT
          !.files = @ \cup {"torchscript", "onnx", "onnx_json"},
          !.pc = "cards"]
    /\ UNCHANGED <<simOut, lblVars, binVars, meshVars, runVars, allToolVars>>

\* lines 694-727: the two cards (same names and scale) and their files
WriteCards ==
    /\ trainRun.pc = "cards"
    /\ LET names == get_feature_names(trainRun.use_v2)
           scale == build_feature_scale(trainRun.use_v2)
           card  == make_model_card(names, scale)
       IN  trainRun' = [trainRun EXCEPT
               !.card = card,
               !.card_names = names,
               !.card_scale = scale,
               !.files = IF card.status = "returned"
                         THEN @ \cup {"torch_card", "onnx_card"} ELSE @,
               !.pc = IF card.status = "returned" THEN "done" ELSE "failed"]
    /\ UNCHANGED <<simOut, lblVars, binVars, meshVars, runVars, allToolVars>>

\* a run of the training script, or calls of its functions
InitTrain == TrainIdle /\ LblIdleInit /\ BinIdle /\ MeshIdle /\ RunIdle /\ ToolsIdle /\ DatasetIdle

SpecTrain ==
    /\ InitTrain
    /\ [][GenerateSample \/ CallMakeModelCard \/ TrainStart \/ BuildDataset
            \/ TrainModel \/ ExportArtefacts \/ WriteCards]_vars

\* the three sites that compute feature vectors: the generator and the
\* evaluator on a mesh, the training script's simulator on its draws
InitFeatures == MeshInit /\ LblIdleInit /\ BinIdle /\ TrainIdle /\ RunIdle /\ ToolsIdle /\ DatasetIdle

SpecFeatures ==
    /\ InitFeatures
    /\ [][ComputeFeatureVector \/ ComputeGlobalFeatures \/ GenerateSample]_vars

(***************************************************************************)
(* Dataset generator: main.  np.random.default_rng(seed) is a fixed stream *)
(* of values per seed; Stream(seed, i) is its i-th value, taken from a     *)
(* range of SeedSpace values.                                              *)
(***************************************************************************)
SeedSpace == 10 ^ 3

Stream(seed, i) == (seed * 48271 + i * 16807 + 11) % SeedSpace

\* rolling_seed_sequence(seed, count): the first count values of the stream
\* of default_rng(seed), each an integer of [0, int32 max)
rolling_seed_sequence(seed, count) == [i \in 1..count |-> Stream(seed, i)]

\* a generator seeded from the operating system's entropy
SampleRng_unseeded(sample_seed, entropy) == [seed |-> entropy, pos |-> 0]

\* rng = np.random.default_rng(sample_seed)   (line 474)
SampleRng(sample_seed, entropy) == [seed |-> sample_seed, pos |-> 0]

\* the i-th value the generator rng hands out from its present position
Draw(rng, i) == Stream(rng.seed, rng.pos + i)

\* what compute_feature_vector gives for the parts generate_part can make: a
\* steep part, a part with two slanted walls, a part without a wall
Parts ==
    << [features |-> [i \in 0..14 |-> IF i = 2 THEN 100 ELSE 0],
        extras |-> [steep_ratio |-> 4000, flat_ratio |-> 1234,
                    pocket_depth |-> 50,
                    face_normals |-> <<>>, face_areas |-> <<>>]],
       [features |-> [i \in 0..14 |-> IF i = 2 THEN 100 ELSE 0],
        extras |-> [steep_ratio |-> 1801, flat_ratio |-> 1234,
                    pocket_depth |-> 61,
                    face_normals |-> << <<3, 0>>, <<0 - 2, 2>> >>,
                    face_areas |-> <<1, 2>>]],
       [features |-> [i \in 0..14 |-> IF i = 2 THEN 100 ELSE 0],
        extras |-> [steep_ratio |-> 1800, flat_ratio |-> 1234,
                    pocket_depth |-> 45,
                    face_normals |-> <<>>, face_areas |-> <<>>]] >>

\* the uniform draws k / RngDen a stream value stands for
DrawSeq == <<0, 50001, 99999>>

MaxCount == 2

MaxRuns == 2

BaseSeeds == {2, 4, 6}

\* what os.urandom may give
Entropy == {5, 6}

RunInit ==
    \E seed \in BaseSeeds : \E n \in 1..MaxCount : \E build \in LapackChoices :
        genRun = [pc |-> "loop", seed |-> seed, n |-> n, build |-> build,
                  idx |-> 0, samples |-> <<>>, manifest |-> <<>>,
                  runs |-> <<>>]

\* one turn of the loop of main, lines 471-485: the sample's seed and its own
\* generator, the part (one value of the generator picks it), the feature
\* vector and the label, which takes the generator's next values
NextSample ==
    /\ genRun.pc = "loop"
    /\ genRun.idx < genRun.n
    /\ \E entropy \in Entropy :
          LET sample_seed == rolling_seed_sequence(genRun.seed, genRun.n)[genRun.idx + 1]
              rng0  == SampleRng(sample_seed, entropy)
              pick  == (Draw(rng0, 1) % Len(Parts)) + 1
              rng   == [rng0 EXCEPT !.pos = 1]
              part  == Parts[pick]
              taken == DrawsTaken(part.features, part.extras, genRun.build)
              draws == [j \in 1..taken |-> DrawSeq[(Draw(rng, j) % Len(DrawSeq)) + 1]]
              out   == choose_label(part.features, part.extras, draws, genRun.build)
          IN  genRun' = [genRun EXCEPT
                  !.idx = @ + 1,
                  !.samples = Append(@, [seed |-> sample_seed, part |-> pick,
                                         features |-> part.features,
                                         label |-> out])]
    /\ UNCHANGED <<lblVars, binVars, meshVars, trainVars, allToolVars>>

\* lines 494-503: the sample ids shuffled by a generator seeded from the
\* base seed, and the manifests written
RunFinish ==
    /\ genRun.pc = "loop"
    /\ genRun.idx = genRun.n
    /\ LET shift == Stream((genRun.seed + 59) % SeedSpace, 1) % genRun.n
       IN  genRun' = [genRun EXCEPT
               !.pc = "done",
               !.manifest = [i \in 1..genRun.n |-> ((i - 1 + shift) % genRun.n) + 1],
               !.runs = Append(@, [samples |-> genRun.samples,
                                   manifest |-> [i \in 1..genRun.n |->
                                                    ((i - 1 + shift) % genRun.n) + 1]])]
    /\ UNCHANGED <<lblVars, binVars, meshVars, trainVars, allToolVars>>

\* the script is run again with the same --seed and --n
RunAgain ==
    /\ genRun.pc = "done"
    /\ Len(genRun.runs) < MaxRuns
    /\ genRun' = [genRun EXCEPT !.pc = "loop", !.idx = 0, !.samples = <<>>,
                                !.manifest = <<>>]
    /\ UNCHANGED <<lblVars, binVars, meshVars, trainVars, allToolVars>>

InitRun == RunInit /\ LblIdleInit /\ BinIdle /\ MeshIdle /\ TrainIdle /\ ToolsIdle /\ DatasetIdle

SpecRun == InitRun /\ [][NextSample \/ RunFinish \/ RunAgain]_vars

(***************************************************************************)
(* Dependency check (ci/scripts/check_dependencies.py).  An optional value *)
(* of the configuration is a sequence: <<>> for None, <<v>> for v.  Ages   *)
(* and limits are whole days.                                              *)
(***************************************************************************)
None == <<>>

Some(v) == <<v>>

SEVERITY_ORDER(severity) ==
    CASE severity = "UNKNOWN"  -> 0
      [] severity = "LOW"      -> 1
      [] severity = "MEDIUM"   -> 2
      [] severity = "MODERATE" -> 2
      [] severity = "HIGH"     -> 3
      [] severity = "CRITICAL" -> 4
      [] OTHER                 -> 0 - 1

\* str.upper() on the strings the configurations and advisories use
Upper(s) ==
    CASE s = "high"     -> "HIGH"
      [] s = "critical" -> "CRITICAL"
      [] s = "low"      -> "LOW"
      [] OTHER          -> s

\* SEVERITY_ORDER.get(min_severity.upper(), SEVERITY_ORDER["CRITICAL"])
min_threshold(min_severity) ==
    IF SEVERITY_ORDER(Upper(min_severity)) >= 0
    THEN SEVERITY_ORDER(Upper(min_severity))
    ELSE SEVERITY_ORDER("CRITICAL")

\* SEVERITY_ORDER.get((advisory.get("severity") or "UNKNOWN").upper(), 0)
severity_value(advisory) ==
    LET severity == IF advisory = "" THEN "UNKNOWN" ELSE Upper(advisory)
    IN  IF SEVERITY_ORDER(severity) >= 0 THEN SEVERITY_ORDER(severity) ELSE 0

\* the "python" section of DEFAULT_CONFIG
DEFAULT_CONFIG_python ==
    [pip_audit_min_severity |-> "CRITICAL",
     max_age_warning_days |-> Some(180),
     max_age_days |-> None,
     max_age_fail_days |-> Some(540)]

\* the "vcpkg" section of DEFAULT_CONFIG
DEFAULT_CONFIG_vcpkg == [max_baseline_age_days |-> 120]

\* run_pip_audit: audit = [returncode, advisories]; the advisories kept are
\* those whose severity is not below the minimum
run_pip_audit(audit, min_severity) ==
    LET kept == SetToSeq({ i \in 1..Len(audit.advisories) :
                    severity_value(audit.advisories[i]) >= min_threshold(min_severity) })
    IN  IF audit.returncode \notin {0, 1}
        THEN [raised |-> TRUE, vulnerabilities |-> <<>>]
        ELSE [raised |-> FALSE,
              vulnerabilities |-> [k \in 1..Len(kept) |-> audit.advisories[kept[k]]]]

\* check_python_release_ages, lines 243-248: a limit that is not positive is
\* no limit
warn_threshold(warning_days) ==
    IF warning_days # None /\ warning_days[1] <= 0 THEN None ELSE warning_days

\* lines 246-254: and a fail limit that is not above the warning limit is
\* dropped
fail_threshold(warning_days, fail_days) ==
    LET warn == warn_threshold(warning_days)
        fail == IF fail_days # None /\ fail_days[1] <= 0 THEN None ELSE fail_days
    IN  IF warn # None /\ fail # None /\ fail[1] <= warn[1] THEN None ELSE fail

PythonRelease(requirement_name, package, age_days, threshold_days, severity) ==
    [requirement_name |-> requirement_name, package |-> package, age_days |-> age_days,
     threshold_days |-> threshold_days, severity |-> severity]

IsFailure(age_days, fail) == fail # None /\ age_days > fail[1]

IsWarning(age_days, warn, fail) ==
    /\ ~IsFailure(age_days, fail)
    /\ warn # None
    /\ age_days > warn[1]

\* check_python_release_ages: releases[i] = [status, age_days] is what PyPI
\* answers for the i-th pinned package; a status other than 200 raises.  The
\* name of a requirement set is its position in the configuration.
check_python_release_ages(requirement_name, releases, warning_days, fail_days) ==
    LET warn == warn_threshold(warning_days)
        fail == fail_threshold(warning_days, fail_days)
        fi   == SetToSeq({ i \in 1..Len(releases) :
                    IsFailure(releases[i].age_days, fail) })
        wi   == SetToSeq({ i \in 1..Len(releases) :
                    IsWarning(releases[i].age_days, warn, fail) })
    IN  IF \E i \in 1..Len(releases) : releases[i].status # 200
        THEN [raised |-> TRUE, warnings |-> <<>>, failures |-> <<>>]
        ELSE [raised |-> FALSE,
              warnings |-> [k \in 1..Len(wi) |->
                  PythonRelease(requirement_name, wi[k], releases[wi[k]].age_days,
                                warn[1], "warning")],
              failures |-> [k \in 1..Len(fi) |->
                  PythonRelease(requirement_name, fi[k], releases[fi[k]].age_days,
                                fail[1], "failure")]]

\* check_vcpkg_baseline: TRUE when an issue (a tuple) is returned
check_vcpkg_baseline(manifest, max_age_days) ==
    IF ~manifest.exists \/ ~manifest.baseline
    THEN [raised |-> FALSE, issue |-> FALSE]
    ELSE IF manifest.status # 200 \/ ~manifest.dated
    THEN [raised |-> TRUE, issue |-> FALSE]
    ELSE [raised |-> FALSE, issue |-> manifest.age_days > max_age_days]

\* the first value of the chain of .get() calls that is not None
RECURSIVE FirstSet(_)
FirstSet(chain) ==
    IF chain = <<>> THEN None
    ELSE IF Head(chain) # None THEN Head(chain)
    ELSE FirstSet(Tail(chain))

\* main, lines 355-361
warn_days(requirement, python_cfg) ==
    FirstSet(<<requirement.max_age_warning_days, requirement.max_age_days,
               python_cfg.max_age_warning_days, python_cfg.max_age_days>>)

\* main, lines 363-366
fail_days(requirement, python_cfg) ==
    FirstSet(<<requirement.max_age_fail_days, python_cfg.max_age_fail_days>>)

\* main, lines 347-349
req_min_severity(requirement, python_cfg) ==
    IF requirement.pip_audit_min_severity # ""
    THEN requirement.pip_audit_min_severity
    ELSE python_cfg.pip_audit_min_severity

has_failures_withWarnings(run) ==
    run.python_vulns # <<>> \/ run.python_age_failures # <<>>
        \/ run.python_age_warnings # <<>> \/ run.vcpkg_issue

\* bool(python_vulns or python_age_failures or vcpkg_issue)
has_failures(run) ==
    run.python_vulns # <<>> \/ run.python_age_failures # <<>> \/ run.vcpkg_issue

MaxRequirements == 2

Audit(returncode, advisories) == [returncode |-> returncode, advisories |-> advisories]

Pypi(status, age_days) == [status |-> status, age_days |-> age_days]

Requirement(warn, fail, min_severity, exists, audit, releases) ==
    [max_age_warning_days |-> warn, max_age_days |-> None,
     max_age_fail_days |-> fail, pip_audit_min_severity |-> min_severity,
     exists |-> exists, audit |-> audit, releases |-> releases]

\* requirement sets of a configuration with what pip-audit and PyPI answer
\* for them
RequirementMenu ==
    { Requirement(None, None, "", TRUE, Audit(0, <<>>), <<Pypi(200, 100)>>),
      Requirement(None, None, "", TRUE, Audit(0, <<>>), <<Pypi(200, 181), Pypi(200, 540)>>),
      Requirement(None, None, "", TRUE, Audit(1, <<"LOW">>), <<Pypi(200, 200), Pypi(200, 541)>>),
      Requirement(Some(200), Some(100), "", TRUE, Audit(0, <<>>), <<Pypi(200, 150), Pypi(200, 250)>>),
      Requirement(None, Some(0), "", TRUE, Audit(0, <<>>), <<Pypi(200, 600)>>),
      Requirement(None, None, "", TRUE, Audit(1, <<"CRITICAL">>), <<>>),
      Requirement(Some(0), Some(90), "high", TRUE, Audit(1, <<"", "high">>), <<Pypi(200, 91)>>),
      Requirement(None, None, "", FALSE, Audit(0, <<>>), <<>>),
      Requirement(None, None, "", TRUE, Audit(2, <<>>), <<>>),
      Requirement(None, None, "", TRUE, Audit(0, <<>>), <<Pypi(200, 600), Pypi(404, 0)>>) }

PythonCfgMenu ==
    { DEFAULT_CONFIG_python,
      [DEFAULT_CONFIG_python EXCEPT !.max_age_warning_days = None,
                                    !.max_age_days = Some(300),
                                    !.pip_audit_min_severity = "low"] }

Manifest(exists, baseline, status, dated, age_days) ==
    [exists |-> exists, baseline |-> baseline, status |-> status,
     dated |-> dated, age_days |-> age_days]

ManifestMenu ==
    { Manifest(FALSE, FALSE, 200, TRUE, 0), Manifest(TRUE, FALSE, 200, TRUE, 0),
      Manifest(TRUE, TRUE, 200, TRUE, 120), Manifest(TRUE, TRUE, 200, TRUE, 121),
      Manifest(TRUE, TRUE, 403, TRUE, 0), Manifest(TRUE, TRUE, 200, FALSE, 0) }

\* main has loaded the configuration and is about to enter its loop
DepsInit ==
    /\ \E n \in 0..MaxRequirements :
       \E rs \in [1..n -> RequirementMenu] :
       \E pc \in PythonCfgMenu :
       \E mf \in ManifestMenu :
           depCfg = [python |-> pc, requirements |-> rs, vcpkg |-> DEFAULT_CONFIG_vcpkg,
                     manifest |-> mf]
    /\ depRun = [pc |-> "requirements", done |-> 0,
                 python_vulns |-> <<>>, python_age_warnings |-> <<>>,
                 python_age_failures |-> <<>>, vcpkg_issue |-> FALSE,
                 exit_code |-> None]

\* sys.exit(2) of the except clause at the end of the script
Exit2(run) == [run EXCEPT !.pc = "exited", !.exit_code = Some(2)]

\* one turn of the loop over requirement_sets (main, lines 341-373)
AuditRequirement ==
    /\ depRun.pc = "requirements"
    /\ depRun.done < Len(depCfg.requirements)
    /\ LET requirement == depCfg.requirements[depRun.done + 1]
           audited == run_pip_audit(requirement.audit,
                          req_min_severity(requirement, depCfg.python))
           aged == check_python_release_ages(depRun.done + 1, requirement.releases,
                          warn_days(requirement, depCfg.python),
                          fail_days(requirement, depCfg.python))
       IN  depRun' =
             IF ~requirement.exists \/ audited.raised \/ aged.raised
             THEN Exit2(depRun)
             ELSE [depRun EXCEPT
                     !.done = @ + 1,
                     !.python_vulns = @ \o audited.vulnerabilities,
                     !.python_age_warnings = @ \o aged.warnings,
                     !.python_age_failures = @ \o aged.failures]
    /\ UNCHANGED <<depCfg, coreVars, inferVars, fitVars, vecVars, cardVars, datasetVars>>

\* main, lines 375-379
CheckVcpkgBaseline ==
    /\ depRun.pc = "requirements"
    /\ depRun.done = Len(depCfg.requirements)
    /\ LET checked == check_vcpkg_baseline(depCfg.manifest,
                          depCfg.vcpkg.max_baseline_age_days)
       IN  depRun' =
             IF checked.raised THEN Exit2(depRun)
             ELSE [depRun EXCEPT !.pc = "summary", !.vcpkg_issue = checked.issue]
    /\ UNCHANGED <<depCfg, coreVars, inferVars, fitVars, vecVars, cardVars, datasetVars>>

\* main, lines 381-482, and sys.exit(main()); written = FALSE when writing
\* the step summary file raises
WriteSummary ==
    /\ depRun.pc = "summary"
    /\ \E written \in BOOLEAN :
         depRun' =
           IF ~written THEN Exit2(depRun)
           ELSE [depRun EXCEPT !.pc = "exited",
                     !.exit_code = IF has_failures(depRun) THEN Some(1) ELSE Some(0)]
    /\ UNCHANGED <<depCfg, coreVars, inferVars, fitVars, vecVars, cardVars, datasetVars>>

InitDeps == DepsInit /\ LblIdleInit /\ BinIdle /\ MeshIdle /\ TrainIdle /\ RunIdle /\ InferIdle /\ FitIdle /\ VecIdle /\ CardIdle /\ DatasetIdle

SpecDeps ==
    /\ InitDeps
    /\ [][AuditRequirement \/ CheckVcpkgBaseline \/ WriteSummary]_vars

(***************************************************************************)
(* Evaluator: inference (tools/eval/run_eval.py).  A tensor is the         *)
(* sequence of its entries after reshape(-1), in units of 1e-1; the output *)
(* of a model is a record [kind, dict, items, tensor] of which the field   *)
(* named by kind is used.                                                  *)
(***************************************************************************)
CLASS_NAMES == <<"raster", "waterline">>

\* dict.get(key): None when the key is missing
Get(dict, key) == IF key \in DOMAIN dict THEN Some(dict[key]) ELSE None

\* int(np.argmax(vec)): the first position of the largest entry, from 0
ArgMax(vec) ==
    (CHOOSE i \in 1..Len(vec) :
        /\ \A j \in 1..Len(vec) : vec[i] >= vec[j]
        /\ \A j \in 1..(i - 1) : vec[j] < vec[i]) - 1

\* strategy_index = 0; if logits_vec is not None and logits_vec.size >= 2:
\*     strategy_index = int(np.argmax(logits_vec))
StrategyIndex(logits_vec) ==
    IF logits_vec # None /\ Len(logits_vec[1]) >= 2 THEN ArgMax(logits_vec[1]) ELSE 0

\* float(t.reshape(-1)[0]) if t is not None else None
FirstEntry(tensor) == IF tensor = None THEN None ELSE Some(tensor[1][1])

Prediction(logits, angle_deg, step_over_mm, strategy_index) ==
    [logits |-> logits, angle_deg |-> angle_deg, step_over_mm |-> step_over_mm,
     strategy_index |-> strategy_index]

NoPrediction == Prediction(None, None, None, 0)

\* infer_onnx: the session's outputs by name
infer_onnx(session) ==
    LET logits == Get(session.outputs, "logits")
        angle  == Get(session.outputs, "angle_deg")
        step   == Get(session.outputs, "step_over_mm")
    IN  IF ~session.has_inputs
        THEN [status |-> "raised", prediction |-> NoPrediction]
        ELSE [status |-> "returned",
              prediction |-> Prediction(logits, FirstEntry(angle), FirstEntry(step),
                                        StrategyIndex(logits))]

\* bool(tensor) of a tensor with one entry; with more entries bool() raises
Truthy(tensor) == tensor # None /\ tensor[1][1] # 0

\* FixedStrategyModule.forward for one row of features (tool diameter in
\* channel 5): torch.cat([logits, angle, step_over], dim=1)
FixedStrategyModule(features) == <<80, 0 - 80, 450, (features[6] * 4) \div 10>>

\* module(input_tensor)
Forward(module, features) ==
    IF module.kind = "fixed"
    THEN IF Len(features) < 6 THEN [kind |-> "raised", dict |-> <<>>, items |-> <<>>, tensor |-> <<>>]
         ELSE [kind |-> "tensor", dict |-> <<>>, items |-> <<>>,
               tensor |-> FixedStrategyModule(features)]
    ELSE module

\* infer_torch
infer_torch(module, features) ==
    LET output == Forward(module, features)
        stepover == Get(output.dict, "stepover")
        logits_tensor ==
            CASE output.kind = "dict"   -> Get(output.dict, "logits")
              [] output.kind = "tuple"  ->
                    IF Len(output.items) >= 1 THEN Some(output.items[1]) ELSE None
              [] output.kind = "tensor" -> Some(output.tensor)
              [] OTHER                  -> None
        angle_tensor ==
            CASE output.kind = "dict"   ->
                    IF Get(output.dict, "angle") # None THEN Get(output.dict, "angle")
                    ELSE Get(output.dict, "angle_deg")
              [] output.kind = "tuple"  ->
                    IF Len(output.items) >= 2 THEN Some(output.items[2]) ELSE None
              [] OTHER                  -> None
        step_tensor ==
            CASE output.kind = "dict"   ->
                    IF Truthy(stepover) THEN stepover
                    ELSE Get(output.dict, "step_over_mm")
              [] output.kind = "tuple"  ->
                    IF Len(output.items) >= 3 THEN Some(output.items[3]) ELSE None
              [] OTHER                  -> None
    IN  IF \/ output.kind = "raised"
           \/ (output.kind = "dict" /\ stepover # None /\ Len(stepover[1]) > 1)
        THEN [status |-> "raised", prediction |-> NoPrediction]
        ELSE [status |-> "returned",
              prediction |-> Prediction(logits_tensor, FirstEntry(angle_tensor),
                                        FirstEntry(step_tensor),
                                        StrategyIndex(logits_tensor))]

MaxLogits == 3

LogitValues == {0 - 80, 80}

LogitTensors == UNION { [1..n -> LogitValues] : n \in 1..MaxLogits }

\* a dict with the given tensors under the given keys (None: key missing)
MakeDict(logits, angle_key, step_key, step) ==
    [k \in (IF logits = None THEN {} ELSE {"logits"})
             \cup (IF angle_key = "" THEN {} ELSE {angle_key})
             \cup (IF step_key = "" THEN {} ELSE {step_key}) |->
        IF k = "logits" THEN logits[1]
        ELSE IF k = angle_key THEN <<450>>
        ELSE step]

Output(kind, dict, items, tensor) ==
    [kind |-> kind, dict |-> dict, items |-> items, tensor |-> tensor]

OnnxOutputs ==
    { MakeDict(logits, angle_key, step_key, <<24>>) :
        logits \in {None} \cup { Some(t) : t \in LogitTensors },
        angle_key \in {"", "angle_deg"}, step_key \in {"", "step_over_mm"} }

TorchModules ==
    { Output("dict", MakeDict(logits, angle_key, "stepover", step), <<>>, <<>>) :
        logits \in {None} \cup { Some(t) : t \in LogitTensors },
        angle_key \in {"", "angle"}, step \in {<<0>>, <<24>>, <<24, 24>>} }
    \cup { Output("tuple", <<>>, SubSeq(<<t, <<450>>, <<24>>>>, 1, n), <<>>) :
        t \in LogitTensors, n \in 0..3 }
    \cup { Output("tensor", <<>>, <<>>, t) : t \in LogitTensors }
    \cup { Output("fixed", <<>>, <<>>, <<>>) }

\* feature vectors: tool diameter 6 mm or 120 mm in channel 5, or too short
InferFeatures ==
    { <<0, 0, 0, 0, 0, 60>>, <<0, 0, 0, 0, 0, 1200>>, <<0, 0>> }

InferInit ==
    /\ \/ \E outputs \in OnnxOutputs, has_inputs \in BOOLEAN :
            inferIn = [backend |-> ".onnx", features |-> <<0, 0, 0, 0, 0, 60>>,
                       model |-> [has_inputs |-> has_inputs, outputs |-> outputs]]
       \/ \E module \in TorchModules, features \in InferFeatures :
            /\ module.kind # "fixed" => features = <<0, 0, 0, 0, 0, 60>>
            /\ inferIn = [backend |-> ".pt", features |-> features, model |-> module]
    /\ inferOut = [status |-> "none", prediction |-> NoPrediction]
    /\ evalRow = [status |-> "none", strategy_pred |-> ""]

\* prediction = infer_onnx(onnx_session, feature_vec)   (main, line 551)
InferOnnx ==
    /\ inferIn.backend = ".onnx"
    /\ inferOut.status = "none"
    /\ inferOut' = infer_onnx(inferIn.model)
    /\ UNCHANGED <<inferIn, evalRow, coreVars, depVars, fitVars, vecVars, cardVars, datasetVars>>

\* prediction = infer_torch(torch_module, feature_vec, torch_device)
InferTorch ==
    /\ inferIn.backend = ".pt"
    /\ inferOut.status = "none"
    /\ inferOut' = infer_torch(inferIn.model, inferIn.features)
    /\ UNCHANGED <<inferIn, evalRow, coreVars, depVars, fitVars, vecVars, cardVars, datasetVars>>

\* predicted_strategy = CLASS_NAMES[pred_index]   (main, lines 556-559); an
\* index outside the list raises IndexError
ClassifySample ==
    /\ inferOut.status = "returned"
    /\ evalRow.status = "none"
    /\ LET pred_index == inferOut.prediction.strategy_index
       IN  evalRow' =
             IF pred_index + 1 \in DOMAIN CLASS_NAMES
             THEN [status |-> "row", strategy_pred |-> CLASS_NAMES[pred_index + 1]]
             ELSE [status |-> "IndexError", strategy_pred |-> ""]
    /\ UNCHANGED <<inferIn, inferOut, coreVars, depVars, fitVars, vecVars, cardVars, datasetVars>>

InitInfer == InferInit /\ LblIdleInit /\ BinIdle /\ MeshIdle /\ TrainIdle /\ RunIdle /\ DepsIdle /\ FitIdle /\ VecIdle /\ CardIdle /\ DatasetIdle

SpecInfer == InitInfer /\ [][InferOnnx \/ InferTorch \/ ClassifySample]_vars

(***************************************************************************)
(* Training script: the loop of train_model.  A loss is a float in units   *)
(* of 1e-6 that may be NaN; float("inf") is None.  The parameters of the   *)
(* model live in one storage that optimizer.step() updates in place; their *)
(* value after the training steps of epoch e is written e.                 *)
(***************************************************************************)
state_dict_copy(model) == [shared |-> FALSE, value |-> model]

\* model.state_dict(): tensors that share the storage of the parameters
state_dict(model) == [shared |-> TRUE, value |-> model]

\* model.load_state_dict(state): copies the tensors of state into the
\* parameters; tensors that share their storage hold their present value
load_state_dict(model, state) == IF state.shared THEN model ELSE state.value

Improves_orEqual(loss, best_val_loss) ==
    /\ ~loss.nan
    /\ (best_val_loss = None \/ loss.v <= best_val_loss[1].v)

\* val_metrics.loss + 1e-6 < best_val_loss
Improves(loss, best_val_loss) ==
    /\ ~loss.nan
    /\ (best_val_loss = None \/ loss.v + 1 < best_val_loss[1].v)

MaxEpochs == 5

MaxPatience == 2

ValLosses == {Fin(10), Fin(11), Fin(20), NaN}

\* train_model, lines 390-392, for the arguments epochs and patience
FitInit ==
    \E epochs \in 0..MaxEpochs, patience \in 0..MaxPatience :
        fitRun = [pc |-> "loop", epochs |-> epochs, patience |-> patience,
                  epoch |-> 0, model |-> 0, val_metrics |-> <<>>,
                  best_val_loss |-> None, best_state |-> None,
                  epochs_without_improve |-> 0,
                  returned |-> [model |-> 0, metrics |-> NaN, epoch |-> 0]]

\* one turn of "for epoch in range(1, epochs + 1)" (lines 394-461): the
\* training steps, the evaluation, the bookkeeping of the best state and the
\* early stop
TrainEpoch ==
    /\ fitRun.pc = "loop"
    /\ fitRun.epoch < fitRun.epochs
    /\ \E loss \in ValLosses :
        LET epoch == fitRun.epoch + 1
            model == epoch
            improved == Improves(loss, fitRun.best_val_loss)
            without == IF improved THEN 0 ELSE fitRun.epochs_without_improve + 1
        IN  fitRun' = [fitRun EXCEPT
                !.epoch = epoch,
                !.model = model,
                !.val_metrics = @ \o <<loss>>,
                !.best_val_loss = IF improved THEN Some(loss) ELSE @,
                !.best_state = IF improved
                               THEN Some([model |-> state_dict(model), epoch |-> epoch,
                                          metrics |-> loss])
                               ELSE @,
                !.epochs_without_improve = without,
                !.pc = IF without >= fitRun.patience \/ epoch = fitRun.epochs
                       THEN "after" ELSE "loop"]
    /\ UNCHANGED <<coreVars, depVars, inferVars, vecVars, cardVars, datasetVars>>

\* lines 463-467; with epochs = 0 the name val_metrics is unbound
FitReturn ==
    /\ \/ fitRun.pc = "after"
       \/ fitRun.pc = "loop" /\ fitRun.epoch = fitRun.epochs
    /\ LET best_state ==
               IF fitRun.best_state # None THEN fitRun.best_state[1]
               ELSE [model |-> state_dict(fitRun.model), epoch |-> fitRun.epochs,
                     metrics |-> fitRun.val_metrics[Len(fitRun.val_metrics)]]
       IN  fitRun' =
             IF fitRun.best_state = None /\ fitRun.val_metrics = <<>>
             THEN [fitRun EXCEPT !.pc = "raised"]
             ELSE [fitRun EXCEPT
                     !.pc = "returned",
                     !.model = load_state_dict(fitRun.model, best_state.model),
                     !.returned = [model |-> load_state_dict(fitRun.model, best_state.model),
                                   metrics |-> best_state.metrics,
                                   epoch |-> best_state.epoch]]
    /\ UNCHANGED <<coreVars, depVars, inferVars, vecVars, cardVars, datasetVars>>

InitFit == FitInit /\ LblIdleInit /\ BinIdle /\ MeshIdle /\ TrainIdle /\ RunIdle /\ DepsIdle /\ InferIdle /\ VecIdle /\ CardIdle /\ DatasetIdle

SpecFit == InitFit /\ [][TrainEpoch \/ FitReturn]_vars

\* the interpreter goes on running the loop and the statements after it
SpecFitFair == SpecFit /\ WF_vars(TrainEpoch) /\ WF_vars(FitReturn)

(***************************************************************************)
(* Evaluator: build_feature_vector.  A dict of features is a function from *)
(* names to values; the values are whole numbers, exact as Python floats.  *)
(***************************************************************************)
\* np.asarray(vector, dtype=np.float32) for one nonnegative entry below
\* 2^25: 24 bits of mantissa, ties to even
Float32(x) ==
    IF x < 16777216 THEN x
    ELSE IF x % 2 = 0 THEN x
    ELSE IF ((x - 1) \div 2) % 2 = 0 THEN x - 1 ELSE x + 1

\* features.get(name, 0.0)
GetOrZero(features, name) == IF name \in DOMAIN features THEN features[name] ELSE 0

Resize_padOnly(vector, expected_count) ==
    vector \o [i \in 1..(expected_count - Len(vector)) |-> 0]

\* lines 270-273: extend with 0.0 or cut to expected_count entries
Resize(vector, expected_count) ==
    IF Len(vector) < expected_count
    THEN vector \o [i \in 1..(expected_count - Len(vector)) |-> 0]
    ELSE IF Len(vector) > expected_count THEN SubSeq(vector, 1, expected_count)
    ELSE vector

build_feature_vector(base_features, meta, feature_order, expected_count) ==
    LET features == [name \in DOMAIN base_features
                              \cup {"user_step_over_mm", "tool_diameter_mm"} |->
                        IF name = "user_step_over_mm" THEN meta.user_step_over_mm
                        ELSE IF name = "tool_diameter_mm" THEN meta.tool_diameter_mm
                        ELSE base_features[name]]
        vector   == [i \in 1..Len(feature_order) |-> GetOrZero(features, feature_order[i])]
        sized    == Resize(vector, expected_count)
    IN  [i \in 1..Len(sized) |-> Float32(sized[i])]

\* what compute_global_features returned for some mesh: a value per name
BaseFeatures ==
    [name \in { DEFAULT_FEATURE_ORDER[i] : i \in 1..15 } |->
        IF name = "volume_mm3" THEN 16777219
        ELSE 100 + (CHOOSE i \in 1..15 : DEFAULT_FEATURE_ORDER[i] = name)]

MaxExpected == 18

FeatureOrders ==
    { SubSeq(DEFAULT_FEATURE_ORDER, 1, n) : n \in 0..Len(DEFAULT_FEATURE_ORDER) }
    \cup { <<"tool_diameter_mm", "unknown_feature", "bbox_x_mm">>,
           <<"volume_mm3", "volume_mm3", "user_step_over_mm", "steep_area_ratio">>,
           DEFAULT_FEATURE_ORDER \o <<"extra_feature">> }

SampleMetas ==
    [user_step_over_mm : {2, 3}, tool_diameter_mm : {6}]

VecInit ==
    /\ \E meta \in SampleMetas, feature_order \in FeatureOrders,
          expected_count \in 0..MaxExpected :
            vecIn = [base_features |-> BaseFeatures, meta |-> meta,
                     feature_order |-> feature_order, expected_count |-> expected_count]
    /\ vecOut = [status |-> "none", vector |-> <<>>]

\* feature_vec = build_feature_vector(base_feats, sample, feature_names,
\* feature_count)   (main, line 548)
BuildFeatureVector ==
    /\ vecOut.status = "none"
    /\ vecOut' = [status |-> "returned",
                  vector |-> build_feature_vector(vecIn.base_features, vecIn.meta,
                                 vecIn.feature_order, vecIn.expected_count)]
    /\ UNCHANGED <<vecIn, coreVars, depVars, inferVars, fitVars, cardVars, datasetVars>>

InitVec == VecInit /\ LblIdleInit /\ BinIdle /\ MeshIdle /\ TrainIdle /\ RunIdle /\ DepsIdle /\ InferIdle /\ FitIdle /\ CardIdle /\ DatasetIdle

SpecVec == InitVec /\ [][BuildFeatureVector]_vars

(***************************************************************************)
(* Evaluator: load_model_card.  A sidecar file is [exists, json, data]:    *)
(* json tells whether its text parses, data holds the "features" object    *)
(* with None for a key that is missing (or null, 0, []).                   *)
(***************************************************************************)
ModelCard(feature_names, feature_count, normalize_mean, normalize_std) ==
    [status |-> "card", feature_names |-> feature_names,
     feature_count |-> feature_count, normalize_mean |-> normalize_mean,
     normalize_std |-> normalize_std]

NoCard(status) ==
    [status |-> status, feature_names |-> <<>>, feature_count |-> 0,
     normalize_mean |-> <<>>, normalize_std |-> <<>>]

\* x.get(key) or default
OrElse(value, default) == IF value = None THEN default ELSE value[1]

ParseCard_lenient(data) ==
    LET names == OrElse(data.names, DEFAULT_FEATURE_ORDER)
    IN  ModelCard(names, Len(names), OrElse(data.mean, <<>>), OrElse(data.std, <<>>))

\* lines 110-133 for the parsed content of one sidecar
ParseCard(data) ==
    LET count0 == OrElse(data.count, 0)
        names0 == OrElse(data.names, <<>>)
        mean   == OrElse(data.mean, <<>>)
        std    == OrElse(data.std, <<>>)
        names  == IF names0 = <<>> THEN DEFAULT_FEATURE_ORDER ELSE names0
        feature_count == IF count0 <= 0 THEN Len(names) ELSE count0
    IN  IF Len(names) # feature_count THEN NoCard("ValueError")
        ELSE IF mean # <<>> /\ Len(mean) # feature_count THEN NoCard("ValueError")
        ELSE IF std # <<>> /\ Len(std) # feature_count THEN NoCard("ValueError")
        ELSE ModelCard(names, feature_count, mean, std)

\* load_model_card: the first candidate that exists decides
load_model_card(candidates) ==
    LET present == { i \in 1..Len(candidates) : candidates[i].exists }
        first   == CHOOSE i \in present : \A j \in present : i <= j
    IN  IF present = {} THEN NoCard("None")
        ELSE IF ~candidates[first].json THEN NoCard("ValueError")
        ELSE ParseCard(candidates[first].data)

MaxCardLen == 2

CardNameLists ==
    {None, Some(DEFAULT_FEATURE_ORDER), Some(<<>>)}
    \cup { Some(SubSeq(DEFAULT_FEATURE_ORDER, 1, n)) : n \in 1..MaxCardLen }

CardCounts == {None, Some(0 - 1), Some(0), Some(17)} \cup { Some(n) : n \in 1..MaxCardLen }

CardVectors ==
    {None, Some(<<>>), Some([i \in 1..17 |-> 1])}
    \cup { Some([i \in 1..n |-> 1]) : n \in 1..MaxCardLen }

CardData == [names : CardNameLists, count : CardCounts, mean : CardVectors, std : CardVectors]

NoData == [names |-> None, count |-> None, mean |-> None, std |-> None]

Sidecar(exists, json, data) == [exists |-> exists, json |-> json, data |-> data]

\* the two candidate paths: <model>.<suffix>.model.json and <model>.model.json
CardInit ==
    /\ \E data \in CardData, place \in {"none", "first", "second", "both", "broken"} :
         cardIn =
            CASE place = "none"   -> <<Sidecar(FALSE, TRUE, NoData), Sidecar(FALSE, TRUE, NoData)>>
              [] place = "first"  -> <<Sidecar(TRUE, TRUE, data), Sidecar(FALSE, TRUE, NoData)>>
              [] place = "second" -> <<Sidecar(FALSE, TRUE, NoData), Sidecar(TRUE, TRUE, data)>>
              [] place = "both"   -> <<Sidecar(TRUE, TRUE, data), Sidecar(TRUE, TRUE, NoData)>>
              [] place = "broken" -> <<Sidecar(TRUE, FALSE, NoData), Sidecar(TRUE, TRUE, data)>>
    /\ cardOut = [status |-> "pending"]

\* card = load_model_card(model_path)   (main, line 491)
LoadModelCard ==
    /\ cardOut.status = "pending"
    /\ cardOut' = load_model_card(cardIn)
    /\ UNCHANGED <<cardIn, coreVars, depVars, inferVars, fitVars, vecVars, datasetVars>>

InitCard == CardInit /\ LblIdleInit /\ BinIdle /\ MeshIdle /\ TrainIdle /\ RunIdle /\ DepsIdle /\ InferIdle /\ FitIdle /\ VecIdle /\ DatasetIdle

SpecCard == InitCard /\ [][LoadModelCard]_vars

(***************************************************************************)
(* Dataset generator: sample directories and manifests.  The directory     *)
(* sample_<index:04d> is written by its index; a directory is [exists,     *)
(* files].  --train-ratio is a float in percent that may be NaN.           *)
(***************************************************************************)
Dir(exists, files) == [exists |-> exists, files |-> files]

NoDir == Dir(FALSE, {})

EmptyDir == Dir(TRUE, {})

prepare_sample_dir_keep(disk, index, force) ==
    IF disk[index].exists /\ ~force THEN [raised |-> TRUE, disk |-> disk]
    ELSE [raised |-> FALSE, disk |-> [disk EXCEPT ![index].exists = TRUE]]

\* prepare_sample_dir: shutil.rmtree + mkdir, or FileExistsError
prepare_sample_dir(disk, index, force) ==
    IF disk[index].exists /\ ~force THEN [raised |-> TRUE, disk |-> disk]
    ELSE [raised |-> FALSE, disk |-> [disk EXCEPT ![index] = EmptyDir]]

\* int(x) for the float x = num / 100: truncation towards zero
IntOfPercent(num) == IF num >= 0 THEN num \div 100 ELSE 0 - ((0 - num) \div 100)

split_index_unclamped(count, train_ratio) ==
    Max(0, Min(count, IntOfPercent(count * train_ratio.v)))

\* max(1, min(len(shuffled) - 1, int(len(shuffled) * args.train_ratio)))
split_index(count, train_ratio) ==
    Max(1, Min(count - 1, IntOfPercent(count * train_ratio.v)))

\* shuffled[:split_index] and shuffled[split_index:]
SliceTo(list, stop) == SubSeq(list, 1, Min(stop, Len(list)))

SliceFrom(list, start) == SubSeq(list, Min(start, Len(list)) + 1, Len(list))

MaxN == 3

TrainRatios == {Fin(0 - 50), Fin(0), Fin(50), Fin(80), Fin(100), Fin(150), NaN}

\* the orders rng_split.shuffle can leave n entries in
Shuffles(n) == { p \in [1..n -> 1..n] : \A i, j \in 1..n : p[i] = p[j] => i = j }

\* main after parse_args and ensure_dir: the arguments, the sample
\* directories found under --out, and what the shuffle will do for the seed
DatasetInit ==
    \E n \in 0..MaxN, force \in BOOLEAN, train_ratio \in TrainRatios :
    \E found \in SUBSET (1..n), shuffle \in Shuffles(n) :
        dataset = [pc |-> "prepare", n |-> n, force |-> force,
                   train_ratio |-> train_ratio, shuffle |-> shuffle,
                   found |-> [i \in 1..n |->
                                IF i \in found THEN Dir(TRUE, {"mesh.stl", "old.json"})
                                ELSE NoDir],
                   disk |-> [i \in 1..n |->
                                IF i \in found THEN Dir(TRUE, {"mesh.stl", "old.json"})
                                ELSE NoDir],
                   idx |-> 0, sample_ids |-> <<>>,
                   train_manifest |-> None, val_manifest |-> None]

\* sample_dir = prepare_sample_dir(out_dir, idx + 1, force=args.force)
PrepareSampleDir ==
    /\ dataset.pc = "prepare"
    /\ dataset.idx < dataset.n
    /\ LET prepared == prepare_sample_dir(dataset.disk, dataset.idx + 1, dataset.force)
       IN  dataset' =
             IF prepared.raised THEN [dataset EXCEPT !.pc = "FileExistsError"]
             ELSE [dataset EXCEPT !.pc = "write", !.disk = prepared.disk]
    /\ UNCHANGED <<coreVars, toolVars>>

\* the rest of the loop body, lines 477-489: mesh.stl and meta.json are
\* written and the directory's name is appended to sample_ids
WriteSample ==
    /\ dataset.pc = "write"
    /\ dataset' = [dataset EXCEPT
            !.pc = "prepare",
            !.disk[dataset.idx + 1].files = @ \cup {"mesh.stl", "meta.json"},
            !.sample_ids = Append(@, dataset.idx + 1),
            !.idx = @ + 1]
    /\ UNCHANGED <<coreVars, toolVars>>

\* lines 494-502: shuffle, split and the two manifests; int(nan) raises
WriteManifests ==
    /\ dataset.pc = "prepare"
    /\ dataset.idx >= dataset.n
    /\ LET shuffled == [i \in 1..Len(dataset.sample_ids) |->
                           dataset.sample_ids[dataset.shuffle[i]]]
           split    == split_index(Len(shuffled), dataset.train_ratio)
       IN  dataset' =
             IF dataset.train_ratio.nan THEN [dataset EXCEPT !.pc = "ValueError"]
             ELSE [dataset EXCEPT
                     !.pc = "done",
                     !.train_manifest = Some(SliceTo(shuffled, split)),
                     !.val_manifest = Some(SliceFrom(shuffled, split))]
    /\ UNCHANGED <<coreVars, toolVars>>

InitDataset == DatasetInit /\ LblIdleInit /\ BinIdle /\ MeshIdle /\ TrainIdle /\ RunIdle /\ ToolsIdle

SpecDataset == InitDataset /\ [][PrepareSampleDir \/ WriteSample \/ WriteManifests]_vars

(***************************************************************************)
(* Properties of the labeller                                              *)
(***************************************************************************)
Returned == lblOut.status = "returned"

RasterCalled == lblOut.status # "none" /\ lblOut.label.strategy # "waterline"

\* C1: a returned label is "waterline" exactly when steep_ratio > 0.35, or
\* steep_ratio > 0.22 and pocket_depth / max(bbox_z, 1e-3) > 0.45 (all
\* comparisons strict), and "raster" for every other input.
C1_DecisionRule ==
    Returned =>
        LET steep == lblExtras.steep_ratio
            depth == lblExtras.pocket_depth
            z     == IF lblFeatures[2] > 10 THEN lblFeatures[2] ELSE 10
            rule  == \/ steep > 3500
                     \/ (steep > 2200 /\ depth * 10000 > 4500 * z)
        IN  /\ rule => lblOut.label.strategy = "waterline"
            /\ ~rule => lblOut.label.strategy = "raster"

\* a waterline label decided by the second clause, and a raster label at
\* the thresholds themselves, have been returned
C1_Witness ==
    /\ Returned
    /\ lblOut.label.strategy = "waterline"
    /\ lblExtras.steep_ratio = 2201
    /\ lblExtras.pocket_depth = 50

\* C2: two calls on the same features and extras that differ only in the
\* values drawn return the same strategy and the same confidence, and for
\* a waterline label the same angle_deg.
C2_RngNeverDecides ==
    (Returned /\ lblPrev.status = "returned") =>
        /\ lblOut.label.strategy = lblPrev.strategy
        /\ lblOut.label.confidence = lblPrev.confidence
        /\ lblOut.label.strategy = "waterline" =>
               lblOut.label.angle_deg = lblPrev.angle_deg

\* two calls whose draws differed (their step-overs differ) were made
C2_Witness ==
    /\ Returned
    /\ lblPrev.status = "returned"
    /\ lblOut.label.step_over_mm # lblPrev.step_over_mm
    /\ lblOut.label.strategy = "waterline"

\* C3: every waterline label has angle_deg = 0.0 and a step-over within
\* [0.18 * D, 0.32 * D] = [1.08, 1.92] mm, before and after the rounding to
\* 3 decimals; steep_ratio = 0.40 with pocket_depth / bbox_z = 0.5 gives
\* such a label.
C3_WaterlineLabel ==
    /\ (Returned /\ lblOut.label.strategy = "waterline") =>
          /\ lblOut.label.angle_deg = Fin(0)
          /\ 1080 <= lblOut.label.step_over_mm
          /\ lblOut.label.step_over_mm <= 1920
          /\ lblOut.label.step_over_mm
                = RoundHalfEven(10800000 + 84 * lblRng[1], 10000)
    /\ (Returned /\ lblExtras.steep_ratio = 4000
           /\ 2 * lblExtras.pocket_depth = lblFeatures[2]) =>
          lblOut.label.strategy = "waterline"

\* the threshold scenario of the specification has been labelled
C3_Witness ==
    /\ Returned
    /\ lblExtras.steep_ratio = 4000
    /\ 2 * lblExtras.pocket_depth = lblFeatures[2]
    /\ lblOut.label.strategy = "waterline"
    /\ lblRng = <<99999>>

\* the raw raster draw of the latest call: 2.4 + 1.5 * u mm, in 1e-7 mm
RasterDraw == 24000000 + 150 * lblRng[Len(lblRng)]

\* C4 as stated: the raster step-over is the draw from [0.40 * D, 0.65 * D]
\* multiplied by 0.85 exactly when pocket_depth / bbox_z > 0.6 and
\* steep_ratio > 0.18.
C4_AsStated ==
    (Returned /\ lblOut.label.strategy = "raster") =>
        LET fine == /\ lblExtras.pocket_depth * 10 > 6 * lblFeatures[2]
                    /\ lblExtras.steep_ratio > 1800
        IN  lblOut.label.step_over_mm =
                RoundHalfEven(IF fine THEN (RasterDraw * 17) \div 20
                              ELSE RasterDraw, 10000)

\* C4 (amended): the raster step-over is the draw from [0.40 * D, 0.65 * D]
\* multiplied by 0.85 exactly when pocket_depth / max(bbox_z, 1e-3) > 0.6
\* and steep_ratio > 0.18, unscaled otherwise, and lies in
\* [0.34 * D, 0.65 * D] = [2.04, 3.9] mm.
C4_RasterStepOver ==
    (Returned /\ lblOut.label.strategy = "raster") =>
        LET z    == IF lblFeatures[2] > 10 THEN lblFeatures[2] ELSE 10
            fine == /\ lblExtras.pocket_depth * 10 > 6 * z
                    /\ lblExtras.steep_ratio > 1800
        IN  /\ lblOut.label.step_over_mm =
                   RoundHalfEven(IF fine THEN (RasterDraw * 17) \div 20
                                 ELSE RasterDraw, 10000)
            /\ 2040 <= lblOut.label.step_over_mm
            /\ lblOut.label.step_over_mm <= 3900

\* a raster label with a scaled step-over has been returned
C4_Witness ==
    /\ Returned
    /\ lblOut.label.strategy = "raster"
    /\ lblExtras.steep_ratio = 1801
    /\ lblExtras.pocket_depth = 61
    /\ lblOut.label.step_over_mm < 2400

\* C5: every returned label has angle_deg in [0, 180), 180 excluded, in
\* the value the label stores (after % 180 and round(., 2)).
C5_AngleHalfOpen ==
    Returned =>
        /\ ~lblOut.label.angle_deg.nan
        /\ 0 <= lblOut.label.angle_deg.v
        /\ lblOut.label.angle_deg.v < 18000

UsableFaces == PlanarMask(lblExtras.face_normals)

\* C6 as stated: compute_raster_angle returns NaN exactly when no face
\* normal has an XY length above the threshold, and no label carries a NaN
\* angle_deg.
C6_AsStated ==
    /\ (RasterCalled /\ ~lblCand.raised) =>
          (lblCand.angle.nan <=> UsableFaces = {})
    /\ Returned => ~lblOut.label.angle_deg.nan

\* C6 (amended): compute_raster_angle returns NaN whenever no face normal
\* has an XY length above the threshold, it returns NaN for no mesh with
\* two or more such faces, and whenever it returns NaN choose_label puts
\* an angle sampled from [0, 180) in its place: no label carries a NaN
\* angle_deg.
C6_NaNFallback ==
    /\ (RasterCalled /\ ~lblCand.raised) =>
          /\ UsableFaces = {} => lblCand.angle.nan
          /\ lblCand.angle.nan => Cardinality(UsableFaces) <= 1
    /\ (Returned /\ RasterCalled /\ lblCand.angle.nan) =>
          lblOut.label.angle_deg
              = Fin(RoundHalfEven((18 * lblRng[1]) % 1800000, 100))
    /\ Returned => ~lblOut.label.angle_deg.nan

\* a raster label whose angle is the sampled fallback has been returned
C6_Witness ==
    /\ Returned
    /\ RasterCalled
    /\ lblCand.angle.nan
    /\ UsableFaces = {}
    /\ lblExtras.face_normals # <<>>
    /\ lblOut.label.angle_deg = Fin(9000)

\* C7: a non-NaN result of compute_raster_angle lies in [0, 180), for
\* every sign of the principal eigenvector.
C7_RasterAngleRange ==
    (RasterCalled /\ ~lblCand.raised /\ ~lblCand.angle.nan) =>
        /\ 0 <= lblCand.angle.v
        /\ lblCand.angle.v < 1800000

(***************************************************************************)
(* Properties of the slope binning                                         *)
(***************************************************************************)
\* C9: binning is half-open: a slope of exactly 15, 30, 45 or 60 degrees
\* goes to the bin that starts there, every slope in [60, 90] goes to bin
\* 4, and the generator and the evaluator give the same bin for every
\* slope in [0, 90].
C9_HalfOpenBins ==
    LET expected ==
            IF binSlope < 150 THEN 0
            ELSE IF binSlope < 300 THEN 1
            ELSE IF binSlope < 450 THEN 2
            ELSE IF binSlope < 600 THEN 3
            ELSE 4
    IN  /\ binOut.genDone => binOut.gen = expected
        /\ binOut.evalDone => binOut.eval = expected
        /\ (binOut.genDone /\ binOut.evalDone) => binOut.gen = binOut.eval

\* a face at exactly 15.0 degrees has been put in bin 1 by both routines
C9_Witness ==
    /\ binSlope = 150
    /\ binOut.genDone /\ binOut.evalDone
    /\ binOut.gen = 1 /\ binOut.eval = 1

(***************************************************************************)
(* Properties of the feature extraction                                    *)
(***************************************************************************)
Orientations == 0..1

\* numerator of the sum of the five bins over their common denominator
HistNum(h) == SeqSum([i \in 1..5 |-> h[i - 1].num])

SumsToOne(h) == \A b \in 0..4 : h[b].den = h[0].den /\ HistNum(h) = h[0].den

\* C8: the 5-bin slope histogram of compute_feature_vector and of
\* compute_global_features sums to 1 for every mesh whose surface area is
\* nonzero, also when the mesh holds faces below the degeneracy threshold
\* next to valid ones.
C8_HistogramSumsToOne ==
    \A o \in Orientations :
        /\ (genOut[o].status = "returned" /\ genOut[o].surface_area > 0)
               => SumsToOne(genOut[o].slope_histogram)
        /\ (evalOut[o].status = "returned" /\ evalOut[o].surface_area_mm2 > 0)
               => SumsToOne(evalOut[o].slope_bin)

\* the generator's half of C8
GenHistogramSumsToOne ==
    \A o \in Orientations :
        (genOut[o].status = "returned" /\ genOut[o].surface_area > 0)
            => SumsToOne(genOut[o].slope_histogram)

\* the evaluator's histogram sums to the valid faces' share of surface_area
EvalHistogramIsValidShare ==
    \A o \in Orientations :
        evalOut[o].status = "returned"
            => /\ HistNum(evalOut[o].slope_bin) <= evalOut[o].surface_area_mm2
               /\ \A b \in 0..4 :
                      evalOut[o].slope_bin[b].den = evalOut[o].surface_area_mm2

\* C10: the reported volume is >= 0 for every mesh, and the mesh with the
\* winding order of every face reversed reports the same volume.
C10_VolumeNonNegative ==
    /\ \A o \in Orientations :
          /\ genOut[o].status = "returned" => genOut[o].volume >= 0
          /\ evalOut[o].status = "returned" => evalOut[o].volume_mm3 >= 0
    /\ \A o, q \in Orientations :
          /\ (genOut[o].status = "returned" /\ genOut[q].status = "returned")
                 => genOut[o].volume = genOut[q].volume
          /\ (evalOut[o].status = "returned" /\ evalOut[q].status = "returned")
                 => evalOut[o].volume_mm3 = evalOut[q].volume_mm3

\* a mesh of nonzero signed volume, measured by both extractors before and
\* after the reversal, the signed sum being negative in the end
C10_Witness ==
    /\ meshOps = 1
    /\ SignedVolume6(mesh) <= 0 - 6 * 1000
    /\ \A o \in Orientations :
          /\ genOut[o].status = "returned" /\ genOut[o].volume > 0
          /\ evalOut[o].status = "returned" /\ evalOut[o].volume_mm3 > 0

\* the mesh m without its face f
WithoutFace(m, f) ==
    [m EXCEPT !.faces =
        [i \in 1..(Len(m.faces) - 1) |->
            IF i < f THEN m.faces[i] ELSE m.faces[i + 1]]]

\* faces of m whose cross-product magnitude is not above EPSILON, the other
\* faces of m being valid and at least one
LoneDegenerateFaces(m) ==
    { f \in 1..Len(m.faces) :
        /\ Norm(FaceCross(m, f)) <= EPSILON
        /\ Len(m.faces) > 1
        /\ \A g \in 1..Len(m.faces) :
              g # f => Norm(FaceCross(m, g)) > EPSILON }

SameRatio(r, s) == r.num * s.den = s.num * r.den

\* the evaluator's result a has the surface area and the histogram of b
SameEvalAreaAndBins(a, b) ==
    /\ a.status = b.status
    /\ a.status = "returned" =>
          /\ a.surface_area_mm2 = b.surface_area_mm2
          /\ \A k \in 0..4 : SameRatio(a.slope_bin[k], b.slope_bin[k])

\* the generator's result a has the surface area and the histogram of b
SameGenAreaAndBins(a, b) ==
    /\ a.status = b.status
    /\ a.status = "returned" =>
          /\ a.surface_area = b.surface_area
          /\ \A k \in 0..4 : SameRatio(a.slope_histogram[k], b.slope_histogram[k])

\* C11: a mesh of valid faces plus one degenerate face (cross-product
\* magnitude not above epsilon) reports the surface area and every histogram
\* bin of the mesh without that face, in the evaluator and in the generator.
C11_DegenerateFaceIgnored ==
    \A f \in LoneDegenerateFaces(mesh) :
        /\ evalOut[meshOps] # NotRun =>
              SameEvalAreaAndBins(evalOut[meshOps],
                                  compute_global_features(WithoutFace(mesh, f)))
        /\ genOut[meshOps] # NotRun =>
              SameGenAreaAndBins(genOut[meshOps],
                                 compute_feature_vector(WithoutFace(mesh, f)))

\* the same for a face whose three vertices are exactly collinear (cross
\* product zero): both extractors ignore it
CollinearFaceIgnored ==
    \A f \in LoneDegenerateFaces(mesh) :
        ZeroNormal(mesh, f) =>
            /\ evalOut[meshOps] # NotRun =>
                  SameEvalAreaAndBins(evalOut[meshOps],
                                      compute_global_features(WithoutFace(mesh, f)))
            /\ genOut[meshOps] # NotRun =>
                  SameGenAreaAndBins(genOut[meshOps],
                                     compute_feature_vector(WithoutFace(mesh, f)))

\* the faces of the mesh whose cross product is longer than EPSILON
NonDegenerate(m) ==
    { f \in 1..Len(m.faces) : Norm(FaceCross(m, f)) > EPSILON }

\* 0.5 * (sum of all cross-product norms) > EPSILON
AreaAboveEpsilon(m) ==
    SeqSum([f \in 1..Len(m.faces) |-> Norm(FaceCross(m, f))]) > 2 * EPSILON

EvalFeatureFields ==
    { "status", "bbox_x_mm", "bbox_y_mm", "bbox_z_mm", "surface_area_mm2",
      "volume_mm3", "slope_bin", "mean_curvature_rad",
      "curvature_variance_rad2", "flat_area_ratio", "steep_area_ratio",
      "pocket_depth_mm" }

SimV2 == simOut.status = "returned" /\ Len(simOut.features) = Len(FEATURE_NAMES_V2)

CurvatureIncidences(m) ==
    { i \in Incidences(m) :
        /\ IncFace(i) \in NonDegenerate(m)
        /\ \E f \in NonDegenerate(m) : \E k \in 1..3 :
              m.faces[f][k] = IncVertex(m, i)
        /\ VecSum([j \in Incidences(m) |->
                      IF IncFace(j) \in NonDegenerate(m)
                         /\ IncVertex(m, j) = IncVertex(m, i)
                      THEN UnitDir(FaceCross(m, IncFace(j))) ELSE ZeroVec])
              # ZeroVec }

\* C14: the curvature statistics take one sample per (face, vertex)
\* incidence whose face is valid and whose vertex normal is nonzero and no
\* other sample; without a sample, mean and variance are both 0.
C14_CurvatureSamples ==
    /\ evalOut[meshOps].status = "returned" =>
          /\ EvalSampled(mesh) = CurvatureIncidences(mesh)
          /\ EvalSampled(mesh) = {} =>
                /\ evalOut[meshOps].mean_curvature_rad = 0
                /\ evalOut[meshOps].curvature_variance_rad2 = 0
    /\ genOut[meshOps].status = "returned" =>
          /\ GenSampled(mesh) = CurvatureIncidences(mesh)
          /\ GenSampled(mesh) = {} =>
                /\ genOut[meshOps].mean_curvature = 0
                /\ genOut[meshOps].curvature_variance = 0

\* the evaluator's half of C14
EvalCurvatureSamples ==
    evalOut[meshOps].status = "returned" =>
        /\ EvalSampled(mesh) = CurvatureIncidences(mesh)
        /\ EvalSampled(mesh) = {} =>
              /\ evalOut[meshOps].mean_curvature_rad = 0
              /\ evalOut[meshOps].curvature_variance_rad2 = 0

\* the evaluator returned for a mesh whose normals cancel: no sample
EvalNoSampleReached ==
    ~ (evalOut[meshOps].status = "returned" /\ EvalSampled(mesh) = {})

\* C15: at the generator, the evaluator and the training simulator the
\* pocket_depth entry of the feature vector equals the bbox_z entry and is
\* not negative.
C15_PocketDepthIsBboxZ ==
    /\ genOut[0].status = "returned" =>
          /\ genOut[0].pocket_depth = genOut[0].bbox[3]
          /\ genOut[0].pocket_depth >= 0
    /\ evalOut[0].status = "returned" =>
          /\ evalOut[0].pocket_depth_mm = evalOut[0].bbox_z_mm
          /\ evalOut[0].pocket_depth_mm >= 0
    /\ SimV2 =>
          /\ simOut.features[15].v = simOut.features[3].v
          /\ simOut.features[15].v >= 0

\* the generator's and the evaluator's part of C15
ExtractorPocketDepthIsBboxZ ==
    /\ genOut[0].status = "returned" =>
          /\ genOut[0].pocket_depth = genOut[0].bbox[3]
          /\ genOut[0].pocket_depth >= 0
    /\ evalOut[0].status = "returned" =>
          /\ evalOut[0].pocket_depth_mm = evalOut[0].bbox_z_mm
          /\ evalOut[0].pocket_depth_mm >= 0

\* the simulator's pocket depth is positive and below its bbox_z
SimPocketDepthBelowBboxZ ==
    SimV2 => /\ simOut.features[15].v > 0
             /\ simOut.features[15].v < simOut.features[3].v

\* the quantity a feature name stands for
QuantityNamed ==
    [bbox_x_mm |-> "bbox_x", bbox_y_mm |-> "bbox_y", bbox_z_mm |-> "bbox_z",
     surface_area_mm2 |-> "surface_area", volume_mm3 |-> "volume",
     slope_bin_0_15 |-> "slope_bin_0", slope_bin_15_30 |-> "slope_bin_1",
     slope_bin_30_45 |-> "slope_bin_2", slope_bin_45_60 |-> "slope_bin_3",
     slope_bin_60_90 |-> "slope_bin_4",
     mean_curvature_rad |-> "mean_curvature",
     curvature_variance_rad2 |-> "curvature_variance",
     flat_area_ratio |-> "flat_ratio", steep_area_ratio |-> "steep_ratio",
     pocket_depth_mm |-> "pocket_depth", user_step_over_mm |-> "step_over",
     tool_diameter_mm |-> "tool_diameter"]

\* C16: at each of the indices 0..14 the value compute_feature_vector puts
\* there, the names FEATURE_NAMES_V2 and DEFAULT_FEATURE_ORDER have there and
\* the value generate_sample (v2) puts there are the same quantity; both
\* name lists have 17 entries, the last two being user_step_over_mm and
\* tool_diameter_mm.
C16_FeatureOrder ==
    /\ Len(FEATURE_NAMES_V2) = 17
    /\ Len(DEFAULT_FEATURE_ORDER) = 17
    /\ \A names \in {FEATURE_NAMES_V2, DEFAULT_FEATURE_ORDER} :
          names[16] = "user_step_over_mm" /\ names[17] = "tool_diameter_mm"
    /\ \A i \in 1..15 : DEFAULT_FEATURE_ORDER[i] = FEATURE_NAMES_V2[i]
    /\ genOut[0].status = "returned" =>
          /\ Len(genOut[0].features) = 15
          /\ \A i \in 1..15 :
                genOut[0].features[i].q = QuantityNamed[FEATURE_NAMES_V2[i]]
    /\ SimV2 =>
          \A i \in 1..15 :
              simOut.features[i].q = QuantityNamed[FEATURE_NAMES_V2[i]]

\* the generator has laid out a vector and the simulator a v2 vector
C16_Witness ==
    /\ genOut[0].status = "returned"
    /\ evalOut[0].status = "returned"
    /\ SimV2
    /\ genOut[0].features[4].v > 0

(***************************************************************************)
(* Properties of the training script                                       *)
(***************************************************************************)
\* C17: make_model_card returns a card only for exactly 17 feature names and
\* a feature_scale of that length and raises otherwise; a returned card has
\* features.count = len(names) = len(mean) = len(std); main with the v1
\* feature set fails before any training and before any file is written.
C17_ModelCardSchema ==
    /\ trainRun.card.status # "none" =>
          /\ trainRun.card.status \in {"returned", "raised"}
          /\ trainRun.card.status = "returned" <=>
                /\ Len(trainRun.card_names) = 17
                /\ Len(trainRun.card_scale) = Len(trainRun.card_names)
    /\ trainRun.card.status = "returned" =>
          LET f == trainRun.card.features
          IN  /\ f.count = Len(f.names)
              /\ f.count = Len(f.normalize.mean)
              /\ f.count = Len(f.normalize.std)
    /\ (trainRun.pc # "idle" /\ ~ trainRun.use_v2) =>
          /\ trainRun.pc = "failed"
          /\ trainRun.built = 0
          /\ ~ trainRun.trained
          /\ trainRun.files = {}

\* make_model_card has refused the six v1 names with their scale, and main
\* has been run with the v1 set
C17_Witness ==
    /\ trainRun.card.status = "raised"
    /\ trainRun.card_names = FEATURE_NAMES_V1
    /\ Len(trainRun.card_scale) = 6
    /\ trainRun.pc = "failed"
    /\ ~ trainRun.use_v2

\* a v2 run gets through and writes all five files
TrainDoneReached == ~ (trainRun.pc = "done" /\ Cardinality(trainRun.files) = 5)

(***************************************************************************)
(* Properties of the dataset generator's main                              *)
(***************************************************************************)
\* every sample labelled so far, in the finished runs and in the present one
AllSamples ==
    { genRun.samples[i] : i \in 1..Len(genRun.samples) }
    \cup UNION { { genRun.runs[r].samples[i] :
                     i \in 1..Len(genRun.runs[r].samples) } :
                 r \in 1..Len(genRun.runs) }

PolicyVolume6(m) ==
    IF Abs(SignedVolume6(m)) < 6 * 1000 THEN m.hull.volume
    ELSE Abs(SignedVolume6(m))

\* C19: each site reports the absolute value of the signed volume, and the
\* convex hull's volume instead when the signed volume is below 1e-6 in
\* magnitude; the generator and the evaluator report the same volume for
\* the same mesh.
C19_VolumeFallback ==
    \A o \in Orientations :
        /\ genOut[o].status = "returned" => genOut[o].volume = PolicyVolume6(mesh)
        /\ evalOut[o].status = "returned" =>
              evalOut[o].volume_mm3 = PolicyVolume6(mesh)
        /\ (genOut[o].status = "returned" /\ evalOut[o].status = "returned")
              => genOut[o].volume = evalOut[o].volume_mm3

\* the generator's part of C19
GenVolumeFallback ==
    \A o \in Orientations :
        genOut[o].status = "returned" => genOut[o].volume = PolicyVolume6(mesh)

\* the evaluator reports the absolute value of the signed volume, always
EvalVolumeNoFallback ==
    \A o \in Orientations :
        evalOut[o].status = "returned" =>
            evalOut[o].volume_mm3 = Abs(SignedVolume6(mesh))

\* the extras of the same mesh with the XY components of every face normal
\* negated and the face areas kept
NegatedXY(extras) ==
    [extras EXCEPT !.face_normals =
        [i \in 1..Len(extras.face_normals) |->
            <<0 - extras.face_normals[i][1], 0 - extras.face_normals[i][2]>>]]

\* the weighted covariance compute_raster_angle builds from the extras
RasterCov(extras) ==
    LET mask == SetToSeq(PlanarMask(extras.face_normals))
    IN  WeightedCov([i \in 1..Len(mask) |-> extras.face_normals[mask[i]]],
                    [i \in 1..Len(mask) |-> extras.face_areas[mask[i]]])

SameModulo180(x, y) ==
    IF x.nan \/ y.nan THEN x.nan /\ y.nan
    ELSE x.v % (180 * DegUnit) = y.v % (180 * DegUnit)

\* C20: negating the XY components of every face normal, with the areas
\* unchanged, leaves compute_raster_angle unchanged: the faces kept by the
\* length mask and the weighted covariance are the same, and the angle
\* returned for the negated normals equals, modulo 180 degrees, the angle
\* returned for the original ones (NaN for both, or an exception for both,
\* when the covariance is undefined), whatever the eigen-solver's choice
\* of sign.
C20_NegatedNormalsSameAngle ==
    RasterCalled =>
        /\ PlanarMask(NegatedXY(lblExtras).face_normals)
              = PlanarMask(lblExtras.face_normals)
        /\ RasterCov(NegatedXY(lblExtras)) = RasterCov(lblExtras)
        /\ \A lapack \in LapackChoices :
              LET negated == compute_raster_angle(NegatedXY(lblExtras), lapack)
              IN  negated.raised = lblCand.raised
                      => SameModulo180(negated.angle, lblCand.angle)

\* compute_raster_angle has returned an angle for two usable faces whose
\* normals are not parallel, so that negating them moves the weighted mean
C20_Witness ==
    /\ RasterCalled
    /\ ~lblCand.raised
    /\ ~lblCand.angle.nan
    /\ lblCand.angle.v % (180 * DegUnit) # 0
    /\ Cardinality(UsableFaces) = 2
    /\ NegatedXY(lblExtras).face_normals # lblExtras.face_normals

(***************************************************************************)
(* Properties of the dependency check                                      *)
(***************************************************************************)
DepsExited == depRun.pc = "exited"

ResolvedFail(r) ==
    fail_threshold(warn_days(depCfg.requirements[r], depCfg.python),
                   fail_days(depCfg.requirements[r], depCfg.python))

\* an advisory of requirement set r is at or above its minimum severity
VulnerabilityFound(r) ==
    LET requirement == depCfg.requirements[r]
    IN  \E a \in 1..Len(requirement.audit.advisories) :
            severity_value(requirement.audit.advisories[a])
                >= min_threshold(req_min_severity(requirement, depCfg.python))

\* a pinned release of requirement set r is beyond the fail limit in force
StaleReleaseFound(r) ==
    \E i \in 1..Len(depCfg.requirements[r].releases) :
        /\ ResolvedFail(r) # None
        /\ depCfg.requirements[r].releases[i].age_days > ResolvedFail(r)[1]

StaleBaselineFound ==
    /\ depCfg.manifest.exists
    /\ depCfg.manifest.baseline
    /\ depCfg.manifest.age_days > depCfg.vcpkg.max_baseline_age_days

\* something the check does raises: a requirement file is missing, pip-audit
\* or PyPI fails, or the baseline commit cannot be dated
CheckRaises ==
    \/ \E r \in 1..Len(depCfg.requirements) :
          \/ ~depCfg.requirements[r].exists
          \/ depCfg.requirements[r].audit.returncode \notin {0, 1}
          \/ \E i \in 1..Len(depCfg.requirements[r].releases) :
                depCfg.requirements[r].releases[i].status # 200
    \/ /\ depCfg.manifest.exists
       /\ depCfg.manifest.baseline
       /\ (depCfg.manifest.status # 200 \/ ~depCfg.manifest.dated)

ExitOneReached ==
    /\ DepsExited
    /\ depRun.exit_code = Some(1)
    /\ depRun.python_vulns # <<>>
    /\ depRun.python_age_failures # <<>>

ExitTwoReached == DepsExited /\ depRun.exit_code = Some(2) /\ depRun.done = 1

InLists(list, r, i) ==
    \E k \in 1..Len(list) : list[k].requirement_name = r /\ list[k].package = i

\* C27: check_python_release_ages puts every pinned release in at most one
\* of the two lists: in failures when its age exceeds the configured
\* max_age_fail_days, otherwise in warnings when its age exceeds the
\* configured max_age_warning_days, otherwise in neither, for every pair of
\* configured limits.
C27_ReleaseClassification ==
    \A r \in 1..depRun.done :
    \A i \in 1..Len(depCfg.requirements[r].releases) :
        LET age  == depCfg.requirements[r].releases[i].age_days
            fail == fail_days(depCfg.requirements[r], depCfg.python)
            warn == warn_days(depCfg.requirements[r], depCfg.python)
            old  == fail # None /\ age > fail[1]
        IN  /\ ~(InLists(depRun.python_age_failures, r, i)
                    /\ InLists(depRun.python_age_warnings, r, i))
            /\ InLists(depRun.python_age_failures, r, i) <=> old
            /\ InLists(depRun.python_age_warnings, r, i)
                  <=> (~old /\ warn # None /\ age > warn[1])

\* what holds of the two lists: no release is in both, and with limits
\* 0 < warning < fail (or one of them absent) the lists are as configured
ReleaseClassificationOrderedLimits ==
    \A r \in 1..depRun.done :
    \A i \in 1..Len(depCfg.requirements[r].releases) :
        LET age  == depCfg.requirements[r].releases[i].age_days
            fail == fail_days(depCfg.requirements[r], depCfg.python)
            warn == warn_days(depCfg.requirements[r], depCfg.python)
            old  == fail # None /\ age > fail[1]
        IN  /\ ~(InLists(depRun.python_age_failures, r, i)
                    /\ InLists(depRun.python_age_warnings, r, i))
            /\ ((fail = None \/ fail[1] > 0) /\ (warn = None \/ warn[1] > 0)
                  /\ (fail = None \/ warn = None \/ warn[1] < fail[1]))
               => /\ InLists(depRun.python_age_failures, r, i) <=> old
                  /\ InLists(depRun.python_age_warnings, r, i)
                        <=> (~old /\ warn # None /\ age > warn[1])

\* a release older than a fail limit that is not above the warning limit is
\* no failure
StaleReleaseNotFailed ==
    \A r \in 1..depRun.done :
    \A i \in 1..Len(depCfg.requirements[r].releases) :
        LET fail == fail_days(depCfg.requirements[r], depCfg.python)
            warn == warn_days(depCfg.requirements[r], depCfg.python)
        IN  (fail # None /\ warn # None /\ 0 < warn[1] /\ fail[1] <= warn[1])
                => ~InLists(depRun.python_age_failures, r, i)

(***************************************************************************)
(* Properties of the evaluator's inference                                 *)
(***************************************************************************)
\* C22: the strategy_index of every Prediction returned by infer_onnx and
\* infer_torch is 0 or 1, for every output shape the evaluator accepts (a
\* dict, a tuple or list, a single tensor such as the one
\* FixedStrategyModule returns), so CLASS_NAMES[pred_index] in the
\* evaluation loop never raises IndexError.
C22_StrategyIndexInRange ==
    /\ inferOut.status = "returned" => inferOut.prediction.strategy_index \in {0, 1}
    /\ evalRow.status # "IndexError"

\* with at most two logits the index is 0 or 1 and the row is built
StrategyIndexInRangeForTwoLogits ==
    (inferOut.status = "returned"
        /\ (inferOut.prediction.logits = None
              \/ Len(inferOut.prediction.logits[1]) <= 2))
    => /\ inferOut.prediction.strategy_index \in {0, 1}
       /\ evalRow.status # "IndexError"

\* the tensor of FixedStrategyModule is read as four logits, and the angle
\* or the step-over wins the argmax
FixedModuleOutOfRange ==
    (inferIn # <<>> /\ inferIn.backend = ".pt" /\ inferIn.model.kind = "fixed"
        /\ inferOut.status = "returned")
    => inferOut.prediction.strategy_index \in {2, 3}

(***************************************************************************)
(* Properties of the training loop                                         *)
(***************************************************************************)
FitReturned == fitRun.pc = "returned"

\* the loss of epoch e is below the loss of every other epoch that was run
LowestValLoss(e) ==
    /\ ~fitRun.val_metrics[e].nan
    /\ \A d \in 1..Len(fitRun.val_metrics) :
          fitRun.val_metrics[d].nan \/ fitRun.val_metrics[e].v <= fitRun.val_metrics[d].v

\* C23: the model train_model returns carries the parameters it had at the
\* end of the epoch with the lowest validation loss, and that epoch and its
\* metrics are returned with it; the training steps of later epochs do not
\* change the parameters that are restored.
C23_BestParametersRestored ==
    FitReturned =>
        /\ fitRun.returned.epoch \in 1..Len(fitRun.val_metrics)
        /\ LowestValLoss(fitRun.returned.epoch)
        /\ fitRun.returned.metrics = fitRun.val_metrics[fitRun.returned.epoch]
        /\ fitRun.returned.model = fitRun.returned.epoch

\* what is returned: the parameters of the last epoch that was run, whatever
\* epoch is returned with them
LastParametersReturned ==
    FitReturned => fitRun.returned.model = fitRun.epoch

\* when some epoch improved, the epoch and the metrics returned are those of
\* the last epoch that improved on the best loss before it by more than 1e-6
BestEpochReturned ==
    (FitReturned /\ fitRun.best_state # None) =>
        /\ fitRun.returned.epoch \in 1..Len(fitRun.val_metrics)
        /\ fitRun.returned.metrics = fitRun.val_metrics[fitRun.returned.epoch]
        /\ \A d \in 1..Len(fitRun.val_metrics) :
              \/ fitRun.val_metrics[d].nan
              \/ fitRun.val_metrics[d].v + 1 >= fitRun.returned.metrics.v
              \/ d < fitRun.returned.epoch

\* loss is below the best loss by more than 1e-6 (any loss is below inf)
BelowBest(loss, best) ==
    /\ ~loss.nan
    /\ (best = None \/ best[1].v - loss.v > 1)

\* the best loss after the epochs 1..e: that of the last epoch that was below
\* the best loss before it
RECURSIVE BestLossAfter(_)
BestLossAfter(e) ==
    IF e = 0 THEN None
    ELSE IF BelowBest(fitRun.val_metrics[e], BestLossAfter(e - 1))
    THEN Some(fitRun.val_metrics[e])
    ELSE BestLossAfter(e - 1)

\* the number of consecutive epochs up to e that did not improve
RECURSIVE FailedEpochs(_)
FailedEpochs(e) ==
    IF e = 0 THEN 0
    ELSE IF BelowBest(fitRun.val_metrics[e], BestLossAfter(e - 1)) THEN 0
    ELSE FailedEpochs(e - 1) + 1

LoopEnded == fitRun.pc \in {"after", "returned", "raised"}

LoopRule ==
    /\ fitRun.epoch <= fitRun.epochs
    /\ Len(fitRun.val_metrics) = fitRun.epoch
    /\ fitRun.epochs_without_improve = FailedEpochs(fitRun.epoch)
    /\ \A e \in 1..(fitRun.epoch - 1) : FailedEpochs(e) < fitRun.patience
    /\ (fitRun.pc = "loop" /\ fitRun.epoch > 0)
          => FailedEpochs(fitRun.epoch) < fitRun.patience
    /\ (LoopEnded /\ fitRun.epoch < fitRun.epochs)
          => FailedEpochs(fitRun.epoch) >= fitRun.patience

\* C24: the training loop of train_model always ends; it runs at most epochs
\* epochs and stops early at the first epoch at which the validation loss
\* has failed to improve on the best loss by more than 1e-6 for patience
\* consecutive epochs; an improving epoch resets that count to 0.
C24_TrainingLoopEnds ==
    /\ [](fitRun.pc # "idle" => LoopRule)
    /\ <>(fitRun.pc \in {"returned", "raised"})

\* the loop was left early, after an epoch that improved and reset the count
C24_Witness ==
    /\ FitReturned
    /\ fitRun.epoch < fitRun.epochs
    /\ fitRun.patience = 2
    /\ fitRun.val_metrics = <<NaN, Fin(11), Fin(10), Fin(20)>>
    /\ fitRun.returned.epoch = 2

(***************************************************************************)
(* Properties of build_feature_vector                                      *)
(***************************************************************************)
\* the value of the feature of that name, as a float32; 0.0 for a name that
\* is not among the features
NamedValue(name) ==
    IF name = "user_step_over_mm" THEN Float32(vecIn.meta.user_step_over_mm)
    ELSE IF name = "tool_diameter_mm" THEN Float32(vecIn.meta.tool_diameter_mm)
    ELSE IF name \in DOMAIN vecIn.base_features THEN Float32(vecIn.base_features[name])
    ELSE 0

\* C25: build_feature_vector returns a vector of exactly expected_count
\* entries: entry i is the (float32) value of the feature named
\* feature_order[i], 0.0 when the name is unknown; positions beyond the
\* list of names hold 0.0; names beyond expected_count are cut off;
\* user_step_over_mm and tool_diameter_mm come from the sample metadata.
C25_VectorLength ==
    vecOut.status = "returned" =>
        /\ Len(vecOut.vector) = vecIn.expected_count
        /\ \A i \in 1..vecIn.expected_count :
              vecOut.vector[i] =
                  IF i <= Len(vecIn.feature_order) THEN NamedValue(vecIn.feature_order[i])
                  ELSE 0

\* a vector cut to 3 entries from 4 names, with a repeated name, a value
\* rounded to float32 and a value of the metadata
C25_Witness ==
    /\ vecOut.status = "returned"
    /\ vecIn.expected_count = 3
    /\ Len(vecIn.feature_order) = 4
    /\ vecOut.vector = <<16777220, 16777220, 3>>

PaddedVectorReached ==
    /\ vecOut.status = "returned"
    /\ Len(vecIn.feature_order) = 3
    /\ vecOut.vector = <<6, 0, 101, 0, 0>>

(***************************************************************************)
(* Properties of load_model_card                                           *)
(***************************************************************************)
CardLoaded == cardOut.status \in {"None", "card", "ValueError"}

SidecarsPresent == { i \in 1..Len(cardIn) : cardIn[i].exists }

\* the sidecar that is read: the first of the candidates that exists
SidecarRead == cardIn[CHOOSE i \in SidecarsPresent : \A j \in SidecarsPresent : i <= j]

Absent(value) == value = None \/ value = Some(<<>>)

\* C26: load_model_card returns None when no sidecar file exists; for an
\* existing sidecar it returns a card only if the number of names equals
\* the feature count and each non-empty normalize.mean / normalize.std has
\* that many entries, and raises ValueError otherwise; a card without names
\* gets the 17 default names, and a card without a positive count gets the
\* number of names as count.
C26_ModelCardValidated ==
    CardLoaded =>
        /\ SidecarsPresent = {} <=> cardOut.status = "None"
        /\ cardOut.status = "card" =>
              LET data == SidecarRead.data
              IN  /\ SidecarRead.json
                  /\ Len(cardOut.feature_names) = cardOut.feature_count
                  /\ cardOut.normalize_mean # <<>>
                        => Len(cardOut.normalize_mean) = cardOut.feature_count
                  /\ cardOut.normalize_std # <<>>
                        => Len(cardOut.normalize_std) = cardOut.feature_count
                  /\ IF Absent(data.names)
                     THEN /\ cardOut.feature_names = DEFAULT_FEATURE_ORDER
                          /\ Len(cardOut.feature_names) = 17
                     ELSE cardOut.feature_names = data.names[1]
                  /\ IF data.count = None \/ data.count[1] <= 0
                     THEN cardOut.feature_count = Len(cardOut.feature_names)
                     ELSE cardOut.feature_count = data.count[1]
                  /\ cardOut.normalize_mean = (IF data.mean = None THEN <<>> ELSE data.mean[1])
                  /\ cardOut.normalize_std = (IF data.std = None THEN <<>> ELSE data.std[1])
        /\ cardOut.status = "ValueError" =>
              \/ ~SidecarRead.json
              \/ LET data  == SidecarRead.data
                     names == IF Absent(data.names) THEN 17 ELSE Len(data.names[1])
                     count == IF data.count = None \/ data.count[1] <= 0
                              THEN names ELSE data.count[1]
                 IN  \/ names # count
                     \/ ~Absent(data.mean) /\ Len(data.mean[1]) # count
                     \/ ~Absent(data.std) /\ Len(data.std[1]) # count

\* a card without names and without a positive count was loaded from the
\* second candidate: 17 default names, count 17
C26_Witness ==
    /\ cardOut.status = "card"
    /\ SidecarsPresent = {2}
    /\ SidecarRead.data.names = None
    /\ SidecarRead.data.count = Some(0 - 1)
    /\ SidecarRead.data.mean = Some([i \in 1..17 |-> 1])
    /\ cardOut.feature_count = 17

CardRejectedReached ==
    /\ cardOut.status = "ValueError"
    /\ SidecarRead.json
    /\ SidecarRead.data.names = Some(DEFAULT_FEATURE_ORDER)
    /\ SidecarRead.data.count = Some(17)
    /\ SidecarRead.data.mean = Some(<<1, 1>>)

(***************************************************************************)
(* Properties of the generator's directories and manifests                 *)
(***************************************************************************)
Entries(list) == { list[i] : i \in 1..Len(list) }

\* C28: the train and validation manifests the generator writes are
\* disjoint and together contain every generated sample id exactly once,
\* for every sample count and train ratio; both manifests are non-empty
\* whenever at least two samples were generated.
C28_ManifestsPartition ==
    dataset.pc = "done" =>
        LET train == dataset.train_manifest[1]
            val   == dataset.val_manifest[1]
        IN  /\ Entries(train) \cap Entries(val) = {}
            /\ Entries(train) \cup Entries(val) = Entries(dataset.sample_ids)
            /\ Entries(dataset.sample_ids) = 1..dataset.n
            /\ Len(train) + Len(val) = dataset.n
            /\ dataset.n >= 2 => (train # <<>> /\ val # <<>>)

\* three samples under --train-ratio 1.5: the last one of the shuffled list
\* is the validation manifest
C28_Witness ==
    /\ dataset.pc = "done"
    /\ dataset.n = 3
    /\ dataset.train_ratio = Fin(150)
    /\ dataset.train_manifest = Some(<<2, 3>>)
    /\ dataset.val_manifest = Some(<<1>>)

\* the first index whose directory was found under --out
FirstFound == CHOOSE i \in 1..dataset.n :
                 /\ dataset.found[i].exists
                 /\ \A j \in 1..(i - 1) : ~dataset.found[j].exists

\* C29: prepare_sample_dir, called for an index whose directory exists,
\* raises FileExistsError and leaves the directory and its content unchanged
\* when force is false, and replaces it by an empty directory when force is
\* true; a run without --force stops at the first existing sample
\* directory: no manifest is written and the samples after it are not
\* generated.
C29_ExistingDirectory ==
    dataset.pc # "idle" =>
        /\ dataset.pc = "FileExistsError" =>
              /\ ~dataset.force
              /\ dataset.found[dataset.idx + 1].exists
              /\ dataset.idx + 1 = FirstFound
              /\ dataset.disk[dataset.idx + 1] = dataset.found[dataset.idx + 1]
        /\ (dataset.pc = "write" /\ dataset.found[dataset.idx + 1].exists) =>
              /\ dataset.force
              /\ dataset.disk[dataset.idx + 1] = EmptyDir
        /\ (~dataset.force /\ \E i \in 1..dataset.n : dataset.found[i].exists) =>
              /\ dataset.pc \in {"prepare", "write", "FileExistsError"}
              /\ dataset.idx < FirstFound
              /\ dataset.sample_ids = [i \in 1..dataset.idx |-> i]
              /\ dataset.train_manifest = None
              /\ dataset.val_manifest = None
              /\ \A j \in FirstFound..dataset.n : dataset.disk[j] = dataset.found[j]

\* a run without --force was stopped by the second directory, after the
\* first sample was generated and before the third
C29_Witness ==
    /\ dataset.pc = "FileExistsError"
    /\ dataset.n = 3
    /\ dataset.idx = 1
    /\ dataset.disk[1].files = {"mesh.stl", "meta.json"}
    /\ dataset.disk[2].files = {"mesh.stl", "old.json"}
    /\ ~dataset.disk[3].exists

\* under --force an existing directory holds the new files only
ForcedDirectoryReplaced ==
    (dataset.pc = "done" /\ dataset.force) =>
        \A i \in 1..dataset.n : dataset.disk[i] = Dir(TRUE, {"mesh.stl", "meta.json"})

====
